---- MODULE Spec2Model ----
(***************************************************************************)
(* A model of tg-smart-folders-bot: the per-destination message queue      *)
(* (src/app/queue_manager.py), the deduplication cache and the folder      *)
(* activation / forwarding handlers (src/app/handlers.py), the circuit     *)
(* breaker and the session store (src/app/session.py) and the user session *)
(* (src/app/user_session.py, src/app/bot.py).                              *)
(*                                                                         *)
(* Every component has its own specification over the same variables; a    *)
(* specification leaves the variables of the other components unchanged.   *)
(***************************************************************************)
EXTENDS Integers, Sequences, FiniteSets, TLC

(***************************************************************************)
(* Bounds of the model.                                                    *)
(***************************************************************************)
\* destination channels a queue may be asked for: 1..MaxChannels
MaxChannels == 2
\* add_message calls (each carries a fresh message) in one behaviour
MaxMsgs == 3
\* worker tasks created in one behaviour
MaxTasks == 2
\* asyncio.Queue objects created in one behaviour
MaxQueues == 2
\* settings.QUEUE_MAX_SIZE is a configurable setting (default 1000,
\* src/app/config.py:50); the model runs a small configuration of it.
QUEUE_MAX_SIZE == 2

\* settings.QUEUE_TIMEOUT, seconds
QUEUE_TIMEOUT == 60

\* The amounts by which the model lets time advance in one step, seconds.
TimeSteps == {20, 40}

\* messages seen by the duplicate check: chats 1..MaxChats, ids 1..MaxIds
MaxChats == 2
MaxIds == 1
\* calls of _is_duplicate in one behaviour
MaxDeliveries == 3
\* the clock of the duplicate check stops here
MaxDedupTime == 140
\* MessageHandlers.cache_ttl, seconds
cache_ttl == 60

\* circuit_breaker(max_failures=5, reset_timeout=300) as ensure_connected uses it
max_failures == 5
reset_timeout == 300
\* wrapped calls that may be awaiting their result at the same time
MaxInflight == 2
\* the clock of the circuit breaker stops here
MaxBreakerTime == 700
\* the amounts by which the breaker's clock advances in one step, seconds
BreakerSteps == {100, 200}

Channels == 1..MaxChannels

\* users of the bot, folders of a user, and the source chats of each folder
\* (folder.include_peers): chat 1 is in both folders
Users == {1}
Folders == {1, 2}
\* a folder whose include_peers names no chat (its chats are chosen by the
\* folder's flags only)
EmptyFolders == {3}
include_peers ==
    [f \in Folders \cup EmptyFolders |->
        IF f = 1 THEN {1} ELSE IF f = 2 THEN {1, 2} ELSE {}]
\* channels created on the remote side in one behaviour
MaxCreated == 2
\* TelegramClient objects created in one behaviour
MaxClients == 2
\* forward_handler closures registered in one behaviour
MaxHandlers == 2
\* interactive logins completed in one behaviour
MaxLogins == 2
\* attempts (lookup, then create) one get_or_create_channel call may make
\* before the remote side stops answering FloodWaitError
MaxAttempts == 3
\* NewMessage events in one behaviour
MaxEvents == 2
\* the clock of the forward handlers stops here
MaxForwardTime == 40
\* the seconds a FloodWaitError of forward_messages carries
FloodSeconds == {40}
\* process restarts in one behaviour
MaxRestarts == 1
\* the users of the watchdog specification
WUsers == {1, 2}
\* the client objects made in the watchdog specification
MaxWatchClients == 3
\* the init_client calls of the watchdog counted for one session
MaxWatchAttempts == 6
\* src/bot.py: UserSession.max_reconnect_attempts
max_reconnect_attempts == 5

\* self.client = None, self.session_string = None, "no channel"
NoClient == 0
NoCred == 0
NoChannel == 0

\* Python's None
None == "None"

(***************************************************************************)
(* Dictionaries: functions whose domain is the set of keys present.        *)
(***************************************************************************)
EmptyDict == [k \in {} |-> None]
DictPut(d, k, v) == [x \in (DOMAIN d) \cup {k} |-> IF x = k THEN v ELSE d[x]]
DictKeep(d, k) == d
DictDel(d, k) == [x \in (DOMAIN d) \ {k} |-> d[x]]

VARIABLES
    \* ---- MessageQueue (src/app/queue_manager.py) ----
    queues,        \* self.queues: channel_id -> queue object (its id)
    tasks,         \* self.tasks: channel_id -> task object (its id)
    stop_events,   \* self._stop_events: channel_id -> event object (its id)
    qitems,        \* heap of asyncio.Queue objects: id -> items, oldest first
    evset,         \* heap of asyncio.Event objects: id -> is_set()
    workers,       \* heap of tasks running process_messages: id -> record
    putters,       \* add_message calls blocked in queue.put(), in arrival order
    nextMsg,       \* the next fresh message
    accepted,      \* per channel, the messages inserted by add_message, in order
    handled,       \* per channel, the messages passed to the handler, in order
    addlog,        \* the add_message calls that returned, with what they returned
    unfinished,    \* heap of queue objects: id -> the items put and not yet
                   \* marked done (asyncio.Queue's count of unfinished tasks)
    failed,        \* the handler calls that raised an Exception: message, task
    lastStopAll,   \* the last stop_all call: the tasks it found, those it awaited
    \* ---- time.time() ----
    now,
    \* ---- MessageHandlers dedup cache (src/app/handlers.py) ----
    message_cache, \* self.message_cache: key -> time the key was recorded
    deliveries,    \* the _is_duplicate calls made: message, time, what was returned
    \* ---- circuit_breaker closure (src/app/session.py) ----
    failures,          \* nonlocal failures
    last_failure_time, \* nonlocal last_failure_time
    inflight,          \* wrapped calls awaiting func(*args, **kwargs)
    streak,            \* failed wrapped calls since the last one that succeeded
    lastFail,          \* the time the last wrapped call failed
    trial,             \* "none", or what became of the calls let through after a
                       \* window elapsed: "inflight", "failed"
    lastCall,          \* the last entry into the wrapper, and whether it called func
    lastEvent,         \* what the breaker did last
    \* ---- sessions, folders and the remote side ----
    users,         \* TelegramBot.users: user_id -> UserSession
    clients,       \* heap of TelegramClient objects: id -> record
    subs,          \* heap of forward_handler closures: id -> record
    store,         \* SessionManager's files: user_id -> saved data
    channels,      \* remote: the channels created, id -> record
    validCreds,    \* remote: the credentials that are still authorized
    nextCred,      \* remote: the next credential a login hands out
    events,        \* the NewMessage events that occurred
    invocations,   \* forward_handler calls in progress, and where they are
    finished,      \* forward_handler calls that ended, and how
    forwards,      \* the forward_messages calls that succeeded
    lastActivate,  \* the last activate_folder call of the process, what it did
    lastDeactivate, \* the deactivate_folder call, when it was the last thing
                   \* the user did
    restarts,      \* how often the process was restarted
    watchdog,      \* TelegramBot.check_connections: where it is, what the round did
    lastEnsure,    \* the last UserSession.ensure_connected call, what it did
    \* ---- BackgroundTaskManager (src/app/background.py) ----
    task_manager,  \* the global instance: tasks, results, callbacks, start_times
    wrappers,      \* heap of the asyncio tasks running task_wrapper: id -> record
    lastAdd,       \* the last add_task call, what it did
    \* ---- SessionManager's persistence (src/app/session.py) ----
    encryption_key, \* self.encryption_key, once the manager is constructed
    files,         \* storage_dir: user_id -> the bytes of '{user_id}.session'
    lastStored,    \* the last save_session or cleanup_session call
    \* ---- the sign-in flows (src/app/handlers.py, src/app/bot.py) ----
    lastLogin,     \* the last QR login or code sign-in that came to an end
    \* ---- the session of the single-file bot (src/bot.py) ----
    legacy,        \* one UserSession: client, is_authorized, reconnect_attempts
    lastLegacy,    \* the last ensure_connected call on it, what it did
    \* ---- SessionManager.ensure_connected, by the user of the client ----
    callsFor,      \* user_id -> wrapped calls for the user's client in progress
    failedFor,     \* the users for whose client a wrapped call has raised
    lastFor,       \* the user for whose client the wrapper was entered last
    \* ---- forward_handler, after asyncio.sleep(FORWARD_DELAY) ----
    issued         \* the forward_messages calls made: handler, event, and whether
                   \* the handler's folder had been deactivated by then

qvars == <<queues, tasks, stop_events, qitems, evset, workers, putters,
           nextMsg, accepted, handled, addlog, unfinished, failed>>

dvars == <<message_cache, deliveries>>

bvars == <<failures, last_failure_time, inflight, streak, lastFail, trial,
           lastCall, lastEvent>>

avars == <<users, clients, subs, store, channels, validCreds, nextCred,
           events, invocations, finished, forwards, lastActivate,
           lastDeactivate, restarts>>

\* what the components added last keep
evars == <<lastEnsure>>

tvars == <<task_manager, wrappers, lastAdd>>

pvars == <<encryption_key, files, lastStored>>

lvars == <<lastLogin>>

gvars == <<legacy, lastLegacy>>

\* what the components added after the sign-in flows keep
kvars == <<callsFor, failedFor, lastFor>>

ivars == <<issued>>

zvars == <<gvars, kvars, ivars>>

\* what the components added after these keep
yvars == <<lvars, zvars>>

xvars == <<evars, tvars, pvars, yvars>>

vars == <<qvars, now, dvars, bvars, avars, lastStopAll, watchdog, xvars>>

\* what the actions of one component leave alone in the others
QOthers == UNCHANGED <<now, dvars, bvars, avars, lastStopAll, watchdog, xvars>>
DOthers == UNCHANGED <<qvars, bvars, avars, lastStopAll, watchdog, xvars>>
BOthers == UNCHANGED <<qvars, dvars, avars, lastStopAll, watchdog, xvars>>
AOthersButLast ==
    UNCHANGED <<now, bvars, putters, nextMsg, accepted, handled, addlog,
                unfinished, failed,
                deliveries, lastStopAll, watchdog, xvars>>
AOthers == AOthersButLast /\ UNCHANGED lastDeactivate

(***************************************************************************)
(* MessageQueue                                                            *)
(***************************************************************************)
NoStopAll == [made |-> FALSE, found |-> {}, awaited |-> {}, returned |-> FALSE]

QInit ==
    /\ queues = EmptyDict
    /\ tasks = EmptyDict
    /\ stop_events = EmptyDict
    /\ qitems = <<>>
    /\ evset = <<>>
    /\ workers = <<>>
    /\ putters = <<>>
    /\ nextMsg = 1
    /\ accepted = [c \in Channels |-> <<>>]
    /\ handled = [c \in Channels |-> <<>>]
    /\ addlog = {}
    /\ unfinished = <<>>
    /\ failed = {}
    /\ lastStopAll = NoStopAll

\* get_queue: the queue of the channel, created with its stop event when the
\* channel has none.  The result names the queue and the dictionaries and heaps
\* as the call leaves them.
get_queue(channel_id) ==
    IF channel_id \notin DOMAIN queues
    THEN LET q == Len(qitems) + 1
         IN  [q |-> q,
              queues |-> DictPut(queues, channel_id, q),
              stop_events |-> DictPut(stop_events, channel_id, q),
              qitems |-> Append(qitems, <<>>),
              evset |-> Append(evset, FALSE),
              unfinished |-> Append(unfinished, 0)]
    ELSE [q |-> queues[channel_id],
          queues |-> queues,
          stop_events |-> stop_events,
          qitems |-> qitems,
          evset |-> evset,
          unfinished |-> unfinished]

\* whether get_queue can be modelled within the bound on queue objects
CanGetQueue(channel_id) ==
    channel_id \in DOMAIN queues \/ Len(qitems) < MaxQueues

\* what add_message hands back to its caller: every path of the function
\* ends without a return statement
AddMessageReturn(outcome) == None

\* asyncio.Queue.full()
Full(q) == Len(qitems[q]) >= QUEUE_MAX_SIZE

\* add_message, up to the point where queue.put() either inserts at once or
\* blocks because the queue is full
add_message(channel_id) ==
    /\ nextMsg <= MaxMsgs
    /\ CanGetQueue(channel_id)
    /\ LET g == get_queue(channel_id)
           m == nextMsg
       IN  /\ queues' = g.queues
           /\ stop_events' = g.stop_events
           /\ evset' = g.evset
           /\ nextMsg' = nextMsg + 1
           /\ IF Len(g.qitems[g.q]) >= QUEUE_MAX_SIZE
              THEN /\ putters' = Append(putters,
                          [msg |-> m, channel |-> channel_id, q |-> g.q, waited |-> 0])
                   /\ qitems' = g.qitems
                   /\ unfinished' = g.unfinished
                   /\ UNCHANGED <<accepted, addlog>>
              ELSE /\ qitems' = [g.qitems EXCEPT ![g.q] = Append(@, m)]
                   /\ unfinished' = [g.unfinished EXCEPT ![g.q] = @ + 1]
                   /\ accepted' = [accepted EXCEPT ![channel_id] = Append(@, m)]
                   /\ addlog' = addlog \cup
                          {[msg |-> m, channel |-> channel_id, outcome |-> "queued",
                            waited |-> 0, ret |-> AddMessageReturn("queued")]}
                   /\ UNCHANGED putters
    /\ UNCHANGED <<tasks, workers, handled, failed>>
    /\ QOthers

RemoveAt(s, i) == SubSeq(s, 1, i - 1) \o SubSeq(s, i + 1, Len(s))

\* the first blocked put() of queue q, 0 when there is none
FirstPutter(q) ==
    IF \E i \in 1..Len(putters) : putters[i].q = q
    THEN CHOOSE i \in 1..Len(putters) :
             /\ putters[i].q = q
             /\ \A j \in 1..(i - 1) : putters[j].q # q
    ELSE 0

\* a blocked queue.put() finds room: the message is inserted, add_message returns
put_resumes(i) ==
    /\ i \in 1..Len(putters)
    /\ i = FirstPutter(putters[i].q)
    /\ ~Full(putters[i].q)
    /\ LET p == putters[i]
       IN  /\ qitems' = [qitems EXCEPT ![p.q] = Append(@, p.msg)]
           /\ unfinished' = [unfinished EXCEPT ![p.q] = @ + 1]
           /\ accepted' = [accepted EXCEPT ![p.channel] = Append(@, p.msg)]
           /\ addlog' = addlog \cup
                  {[msg |-> p.msg, channel |-> p.channel, outcome |-> "queued",
                    waited |-> p.waited, ret |-> AddMessageReturn("queued")]}
    /\ putters' = RemoveAt(putters, i)
    /\ UNCHANGED <<queues, tasks, stop_events, evset, workers, nextMsg, handled,
                   failed>>
    /\ QOthers

\* wait_for's timeout fires on a put() that is still blocked: asyncio.TimeoutError,
\* the warning is logged, add_message returns
put_times_out(i) ==
    /\ i \in 1..Len(putters)
    /\ putters[i].waited >= QUEUE_TIMEOUT
    /\ LET p == putters[i]
       IN  addlog' = addlog \cup
               {[msg |-> p.msg, channel |-> p.channel, outcome |-> "dropped",
                 waited |-> p.waited, ret |-> AddMessageReturn("dropped")]}
    /\ putters' = RemoveAt(putters, i)
    /\ UNCHANGED <<queues, tasks, stop_events, qitems, evset, workers, nextMsg,
                   accepted, handled, unfinished, failed>>
    /\ QOthers

\* time passes for the blocked put() calls; a put() that has room resumes and a
\* timeout that is due fires before more time passes
QTick(d) ==
    /\ putters # <<>>
    /\ \A i \in 1..Len(putters) :
           /\ putters[i].waited + d <= QUEUE_TIMEOUT
           /\ ~(i = FirstPutter(putters[i].q) /\ ~Full(putters[i].q))
    /\ putters' = [i \in 1..Len(putters) |->
                      [putters[i] EXCEPT !.waited = @ + d]]
    /\ UNCHANGED <<queues, tasks, stop_events, qitems, evset, workers, nextMsg,
                   accepted, handled, addlog, unfinished, failed>>
    /\ QOthers

\* asyncio.Task.done()
TaskDone(t) == workers[t].pc = "done"

\* start_processing without its test for a task that is still running
start_processing_unguarded(channel_id) ==
    /\ Len(workers) < MaxTasks
    /\ workers' = Append(workers,
           [channel |-> channel_id, pc |-> "created", q |-> 0, msg |-> 0,
            cancel |-> FALSE])
    /\ tasks' = DictPut(tasks, channel_id, Len(workers) + 1)
    /\ UNCHANGED <<queues, stop_events, qitems, evset, putters, nextMsg,
                   accepted, handled, addlog, unfinished, failed>>
    /\ QOthers

\* start_processing: nothing when the channel has a task that is not done
start_processing(channel_id) ==
    /\ ~(channel_id \in DOMAIN tasks /\ ~TaskDone(tasks[channel_id]))
    /\ Len(workers) < MaxTasks
    /\ workers' = Append(workers,
           [channel |-> channel_id, pc |-> "created", q |-> 0, msg |-> 0,
            cancel |-> FALSE])
    /\ tasks' = DictPut(tasks, channel_id, Len(workers) + 1)
    /\ UNCHANGED <<queues, stop_events, qitems, evset, putters, nextMsg,
                   accepted, handled, addlog, unfinished, failed>>
    /\ QOthers

\* the dictionaries, events and tasks as stop_processing(channel_id) leaves them,
\* from the state st = [queues, tasks, stop_events, evset, workers]
StopProcessing(st, channel_id) ==
    [queues |-> DictDel(st.queues, channel_id),
     tasks |-> DictDel(st.tasks, channel_id),
     stop_events |-> st.stop_events,
     evset |-> IF channel_id \in DOMAIN st.stop_events
               THEN [st.evset EXCEPT ![st.stop_events[channel_id]] = TRUE]
               ELSE st.evset,
     workers |-> IF channel_id \in DOMAIN st.tasks
                 THEN [st.workers EXCEPT ![st.tasks[channel_id]].cancel =
                           (st.workers[st.tasks[channel_id]].pc # "done")]
                 ELSE st.workers]

QState == [queues |-> queues, tasks |-> tasks, stop_events |-> stop_events,
           evset |-> evset, workers |-> workers]

stop_processing(channel_id) ==
    /\ LET s == StopProcessing(QState, channel_id)
       IN  /\ queues' = s.queues
           /\ tasks' = s.tasks
           /\ stop_events' = s.stop_events
           /\ evset' = s.evset
           /\ workers' = s.workers
    /\ UNCHANGED <<qitems, putters, nextMsg, accepted, handled, addlog,
                   unfinished, failed>>
    /\ QOthers

\* the state after stop_processing was called for every channel of the set cs
RECURSIVE StopEach(_, _)
StopEach(st, cs) ==
    IF cs = {}
    THEN st
    ELSE LET c == CHOOSE x \in cs : TRUE
         IN  StopEach(StopProcessing(st, c), cs \ {c})

\* remaining_tasks of stop_all: the tasks of self.tasks that are not done
RemainingTasks(tks, wks) ==
    {tks[c] : c \in {x \in DOMAIN tks : wks[tks[x]].pc # "done"}}

\* stop_all: stop_processing for every channel that has a task, then gather()
\* on the tasks that remain in self.tasks and are not done, then the three
\* dictionaries are cleared.  The loop has no await and neither has the rest
\* when remaining_tasks is empty; with tasks to await the call would stay at
\* gather() and the dictionaries as the loop left them.
stop_all ==
    /\ LET s == StopEach(QState, DOMAIN tasks)
           remaining == RemainingTasks(s.tasks, s.workers)
       IN  /\ evset' = s.evset
           /\ workers' = s.workers
           /\ lastStopAll' = [made |-> TRUE,
                              found |-> {t \in 1..Len(workers) : workers[t].pc # "done"},
                              awaited |-> remaining,
                              returned |-> (remaining = {})]
           /\ IF remaining = {}
              THEN /\ queues' = EmptyDict
                   /\ tasks' = EmptyDict
                   /\ stop_events' = EmptyDict
              ELSE /\ queues' = s.queues
                   /\ tasks' = s.tasks
                   /\ stop_events' = s.stop_events
    /\ UNCHANGED <<qitems, putters, nextMsg, accepted, handled, addlog,
                   unfinished, failed>>
    /\ UNCHANGED <<now, dvars, bvars, avars, watchdog, xvars>>

\* process_messages, first step of the task: get_queue and the stop event
worker_starts(t) ==
    /\ t \in 1..Len(workers)
    /\ workers[t].pc = "created"
    /\ ~workers[t].cancel
    /\ CanGetQueue(workers[t].channel)
    /\ LET g == get_queue(workers[t].channel)
       IN  /\ queues' = g.queues
           /\ stop_events' = g.stop_events
           /\ qitems' = g.qitems
           /\ evset' = g.evset
           /\ unfinished' = g.unfinished
           /\ workers' = [workers EXCEPT ![t].pc = "loop", ![t].q = g.q]
    /\ UNCHANGED <<tasks, putters, nextMsg, accepted, handled, addlog, failed>>
    /\ QOthers

\* a worker whose queue hands out the newest message first
worker_gets_lifo(t) ==
    /\ t \in 1..Len(workers)
    /\ workers[t].pc = "loop"
    /\ ~workers[t].cancel
    /\ ~evset[workers[t].q]
    /\ qitems[workers[t].q] # <<>>
    /\ LET q == workers[t].q
           m == qitems[q][Len(qitems[q])]
       IN  /\ qitems' = [qitems EXCEPT ![q] = SubSeq(@, 1, Len(@) - 1)]
           /\ workers' = [workers EXCEPT ![t].pc = "handling", ![t].msg = m]
           /\ handled' = [handled EXCEPT ![workers[t].channel] = Append(@, m)]
    /\ UNCHANGED <<queues, tasks, stop_events, evset, putters, nextMsg,
                   accepted, addlog, unfinished, failed>>
    /\ QOthers

\* a worker that takes the next message although its task was cancelled or
\* its stop event set
worker_gets_unstoppable(t) ==
    /\ t \in 1..Len(workers)
    /\ workers[t].pc = "loop"
    /\ qitems[workers[t].q] # <<>>
    /\ LET q == workers[t].q
           m == Head(qitems[q])
       IN  /\ qitems' = [qitems EXCEPT ![q] = Tail(@)]
           /\ workers' = [workers EXCEPT ![t].pc = "handling", ![t].msg = m]
           /\ handled' = [handled EXCEPT ![workers[t].channel] = Append(@, m)]
    /\ UNCHANGED <<queues, tasks, stop_events, evset, putters, nextMsg,
                   accepted, addlog, unfinished, failed>>
    /\ QOthers

\* queue.get() returns a message and the handler is called with it
worker_gets(t) ==
    /\ t \in 1..Len(workers)
    /\ workers[t].pc = "loop"
    /\ ~workers[t].cancel
    /\ ~evset[workers[t].q]
    /\ qitems[workers[t].q] # <<>>
    /\ LET q == workers[t].q
           m == Head(qitems[q])
       IN  /\ qitems' = [qitems EXCEPT ![q] = Tail(@)]
           /\ workers' = [workers EXCEPT ![t].pc = "handling", ![t].msg = m]
           /\ handled' = [handled EXCEPT ![workers[t].channel] = Append(@, m)]
    /\ UNCHANGED <<queues, tasks, stop_events, evset, putters, nextMsg,
                   accepted, addlog, unfinished, failed>>
    /\ QOthers

\* how an awaited handler call ends when the task is not cancelled
HandlerOutcomes == {"returned", "raised"}

\* queue.task_done()
TaskDoneCount(unf, q) == [unf EXCEPT ![q] = @ - 1]

\* a worker that an Exception of the handler brings to its end: the finally
\* clause runs, no except clause does
handler_ends_fatal(t, outcome) ==
    /\ t \in 1..Len(workers)
    /\ workers[t].pc = "handling"
    /\ ~workers[t].cancel
    /\ workers' = [workers EXCEPT
                      ![t].pc = IF outcome = "raised" THEN "done" ELSE "loop",
                      ![t].msg = 0]
    /\ failed' = IF outcome = "raised"
                 THEN failed \cup {[msg |-> workers[t].msg, task |-> t]}
                 ELSE failed
    /\ unfinished' = TaskDoneCount(unfinished, workers[t].q)
    /\ UNCHANGED <<queues, tasks, stop_events, qitems, evset, putters, nextMsg,
                   accepted, handled, addlog>>
    /\ QOthers

\* the handler returns, or raises an Exception that the except clause logs:
\* in both cases the finally clause calls task_done() and the loop goes on
\* with its test
handler_ends(t, outcome) ==
    /\ t \in 1..Len(workers)
    /\ workers[t].pc = "handling"
    /\ ~workers[t].cancel
    /\ workers' = [workers EXCEPT ![t].pc = "loop", ![t].msg = 0]
    /\ failed' = IF outcome = "raised"
                 THEN failed \cup {[msg |-> workers[t].msg, task |-> t]}
                 ELSE failed
    /\ unfinished' = TaskDoneCount(unfinished, workers[t].q)
    /\ UNCHANGED <<queues, tasks, stop_events, qitems, evset, putters, nextMsg,
                   accepted, handled, addlog>>
    /\ QOthers

\* the task ends: CancelledError is thrown into a task that cancel() was called
\* on (no except clause of process_messages catches it; when it arrives in the
\* handler call the finally clause calls task_done() first), or the loop test
\* finds the stop event set and the coroutine returns.  stop_processing sets
\* the event and cancels the task in one call, so the second way is open only
\* to a task that was cancelled as well.
worker_ends(t) ==
    /\ t \in 1..Len(workers)
    /\ workers[t].pc # "done"
    /\ (workers[t].cancel \/ (workers[t].pc = "loop" /\ evset[workers[t].q]))
    /\ workers' = [workers EXCEPT ![t].pc = "done"]
    /\ unfinished' = IF workers[t].pc = "handling"
                     THEN TaskDoneCount(unfinished, workers[t].q)
                     ELSE unfinished
    /\ UNCHANGED <<queues, tasks, stop_events, qitems, evset, putters, nextMsg,
                   accepted, handled, addlog, failed>>
    /\ QOthers

QNext ==
    \/ \E c \in Channels : add_message(c)
    \/ \E i \in 1..MaxMsgs : put_resumes(i)
    \/ \E i \in 1..MaxMsgs : put_times_out(i)
    \/ \E d \in TimeSteps : QTick(d)
    \/ \E c \in Channels : start_processing(c)
    \/ \E c \in Channels : stop_processing(c)
    \/ stop_all
    \/ \E t \in 1..MaxTasks : worker_starts(t)
    \/ \E t \in 1..MaxTasks : worker_gets(t)
    \/ \E t \in 1..MaxTasks, o \in HandlerOutcomes : handler_ends(t, o)
    \/ \E t \in 1..MaxTasks : worker_ends(t)

(***************************************************************************)
(* The deduplication cache of MessageHandlers                              *)
(***************************************************************************)
DInit ==
    /\ message_cache = EmptyDict
    /\ deliveries = <<>>

Messages == [chat_id : 1..MaxChats, id : 1..MaxIds]

\* int(time.time() / self.cache_ttl)
Bucket(t) == t \div cache_ttl

\* _get_message_key: f"{message.chat_id}:{message.id}:{bucket}"
get_message_key(message, t) == <<message.chat_id, message.id, Bucket(t)>>

\* the cleanup that keeps the entries too old by more than nothing
PurgeKeepsOld(cache, current_time) ==
    LET keep == {k \in DOMAIN cache : current_time - cache[k] > cache_ttl}
    IN  [k \in keep |-> cache[k]]

\* the cleanup of _is_duplicate: the entries younger than cache_ttl stay
Purge(cache, current_time) ==
    LET keep == {k \in DOMAIN cache : current_time - cache[k] < cache_ttl}
    IN  [k \in keep |-> cache[k]]

\* _is_duplicate with a cache that holds the key recorded last and no other
IsDuplicateLastOnly(cache, message, t) ==
    LET key == get_message_key(message, t)
    IN  IF key \in DOMAIN cache
        THEN [dup |-> TRUE, cache |-> cache]
        ELSE [dup |-> FALSE, cache |-> DictPut(EmptyDict, key, t)]

\* _is_duplicate at time t on cache: what it returns and the cache it leaves
IsDuplicate(cache, message, t) ==
    LET key == get_message_key(message, t)
    IN  IF key \in DOMAIN cache
        THEN [dup |-> TRUE, cache |-> cache]
        ELSE [dup |-> FALSE, cache |-> Purge(DictPut(cache, key, t), t)]

is_duplicate(message) ==
    /\ Len(deliveries) < MaxDeliveries
    /\ LET r == IsDuplicate(message_cache, message, now)
       IN  /\ message_cache' = r.cache
           /\ deliveries' = Append(deliveries,
                  [message |-> message, t |-> now, dup |-> r.dup])
    /\ UNCHANGED now
    /\ DOthers

DTick(d) ==
    /\ now + d <= MaxDedupTime
    /\ now' = now + d
    /\ UNCHANGED dvars
    /\ DOthers

DNext ==
    \/ \E m \in Messages : is_duplicate(m)
    \/ \E d \in TimeSteps : DTick(d)

(***************************************************************************)
(* circuit_breaker                                                         *)
(***************************************************************************)
BInit ==
    /\ failures = 0
    /\ last_failure_time = 0
    /\ inflight = 0
    /\ streak = 0
    /\ lastFail = 0
    /\ trial = "none"
    /\ lastCall = [made |-> FALSE, t |-> 0, streak |-> 0, lastFail |-> 0,
                   trial |-> "none", invoked |-> FALSE]
    /\ lastEvent = "init"

\* the test that keeps the breaker open, with the counter compared the wrong way
BreakerOpenOffByOne == failures > max_failures /\ now - last_failure_time < reset_timeout

\* the wrapper returns None without calling func
BreakerOpen == failures >= max_failures /\ now - last_failure_time < reset_timeout

\* wrapper, from its entry to the await of func or to the early return
BreakerCall ==
    /\ lastCall' = [made |-> TRUE, t |-> now, streak |-> streak, lastFail |-> lastFail,
                    trial |-> trial, invoked |-> ~BreakerOpen]
    /\ ~BreakerOpen => inflight < MaxInflight
    /\ IF BreakerOpen
       THEN /\ lastEvent' = "skipped"
            /\ UNCHANGED <<failures, inflight, trial>>
       ELSE /\ inflight' = inflight + 1
            /\ failures' = IF failures >= max_failures THEN 0 ELSE failures
            /\ trial' = IF failures >= max_failures THEN "inflight" ELSE trial
            /\ lastEvent' = "invoked"
    /\ UNCHANGED <<now, last_failure_time, streak, lastFail>>

breaker_call ==
    /\ BreakerCall
    /\ BOthers

\* func returned: failures = 0
BreakerCallSucceeds ==
    /\ inflight > 0
    /\ inflight' = inflight - 1
    /\ failures' = 0
    /\ streak' = 0
    /\ trial' = "none"
    /\ lastEvent' = "ok"
    /\ UNCHANGED <<now, last_failure_time, lastFail, lastCall>>

breaker_call_succeeds ==
    /\ BreakerCallSucceeds
    /\ BOthers

\* func raised: failures += 1, last_failure_time = time.time(), re-raised.
\* wasTrial tells whether the call that failed is the one let through when the
\* window elapsed.
BreakerCallFails(wasTrial) ==
    /\ IF wasTrial
       THEN trial = "inflight"
       ELSE inflight > (IF trial = "inflight" THEN 1 ELSE 0)
    /\ inflight' = inflight - 1
    /\ failures' = failures + 1
    /\ last_failure_time' = now
    /\ streak' = streak + 1
    /\ lastFail' = now
    /\ trial' = IF wasTrial THEN "failed" ELSE trial
    /\ lastEvent' = "failed"
    /\ UNCHANGED <<now, lastCall>>

breaker_call_fails(wasTrial) ==
    /\ BreakerCallFails(wasTrial)
    /\ BOthers

BTick(d) ==
    /\ now + d <= MaxBreakerTime
    /\ now' = now + d
    /\ UNCHANGED bvars
    /\ BOthers

\* SessionManager.ensure_connected(client): the one wrapper made when the
\* class was defined, entered for the client of user_id
KInit ==
    /\ callsFor = [u \in WUsers |-> 0]
    /\ failedFor = {}
    /\ lastFor = 0

KOthers ==
    UNCHANGED <<qvars, dvars, avars, lastStopAll, watchdog, evars, tvars, pvars,
                lvars, gvars, ivars>>

manager_ensure_connected(user_id) ==
    /\ BreakerCall
    /\ callsFor' = IF BreakerOpen THEN callsFor
                   ELSE [callsFor EXCEPT ![user_id] = @ + 1]
    /\ lastFor' = user_id
    /\ UNCHANGED failedFor
    /\ KOthers

\* client.connect() and client.is_user_authorized() returned
manager_call_returns(user_id) ==
    /\ callsFor[user_id] > 0
    /\ BreakerCallSucceeds
    /\ callsFor' = [callsFor EXCEPT ![user_id] = @ - 1]
    /\ UNCHANGED <<failedFor, lastFor>>
    /\ KOthers

\* client.connect() or client.is_user_authorized() raised
manager_call_raises(user_id, wasTrial) ==
    /\ callsFor[user_id] > 0
    /\ BreakerCallFails(wasTrial)
    /\ callsFor' = [callsFor EXCEPT ![user_id] = @ - 1]
    /\ failedFor' = failedFor \cup {user_id}
    /\ UNCHANGED lastFor
    /\ KOthers

KTick(d) ==
    /\ now + d <= MaxBreakerTime
    /\ now' = now + d
    /\ UNCHANGED <<bvars, kvars>>
    /\ KOthers

KNext ==
    \/ \E u \in WUsers : manager_ensure_connected(u)
    \/ \E u \in WUsers : manager_call_returns(u)
    \/ \E u \in WUsers, wasTrial \in BOOLEAN : manager_call_raises(u, wasTrial)
    \/ \E d \in BreakerSteps : KTick(d)

BNext ==
    \/ breaker_call
    \/ breaker_call_succeeds
    \/ \E wasTrial \in BOOLEAN : breaker_call_fails(wasTrial)
    \/ \E d \in BreakerSteps : BTick(d)

(***************************************************************************)
(* Sessions, the session store, folder activation                          *)
(***************************************************************************)
NoActivate == [made |-> FALSE, user |-> 0, folder |-> 0, had |-> NoChannel,
               lookup |-> "none", resolved |-> FALSE, admin |-> FALSE,
               result |-> FALSE, channel |-> NoChannel, creates |-> 0,
               created |-> NoChannel, persisted |-> NoChannel, usable |-> FALSE,
               prior |-> NoChannel, alive |-> {},
               told |-> "nothing"]

\* what handle_folder_selection answers the user after the call it made:
\* the result of activate_folder is not looked at, deactivate_folder has none
FolderSelectionReply(op, result) ==
    IF op = "activate" THEN "activated" ELSE "deactivated"

\* check_connections between two rounds, no round made yet
WatchdogIdle ==
    [pc |-> "sleeping", left |-> {}, size |-> 0, started |-> {}, log |-> <<>>,
     outcome |-> "none", attempts |-> [u \in WUsers |-> 0]]

NoDeactivate == [made |-> FALSE, user |-> 0, folder |-> 0, channel |-> NoChannel,
                 handler |-> 0]

AInit ==
    /\ users = EmptyDict
    /\ clients = <<>>
    /\ subs = <<>>
    /\ store = EmptyDict
    /\ channels = <<>>
    /\ validCreds = {}
    /\ nextCred = 1
    /\ events = {}
    /\ invocations = {}
    /\ finished = {}
    /\ forwards = {}
    /\ lastActivate = NoActivate
    /\ lastDeactivate = NoDeactivate
    /\ restarts = 0
    /\ watchdog = WatchdogIdle

\* UserSession.__init__
NewUserSession ==
    [client |-> NoClient, is_authorized |-> FALSE, session_string |-> NoCred,
     active_folders |-> EmptyDict, folder_handlers |-> EmptyDict]

\* TelegramBot.get_user_session of src/app/bot.py: the session object is made
\* on first use; nothing is read from the store
get_user_session(user_id) ==
    /\ user_id \notin DOMAIN users
    /\ users' = DictPut(users, user_id, NewUserSession)
    /\ UNCHANGED <<clients, subs, store, channels, validCreds, nextCred, events,
                   invocations, finished, forwards, lastActivate, restarts>>
    /\ UNCHANGED <<queues, tasks, stop_events, qitems, evset, workers,
                   message_cache>>
    /\ AOthers

\* load_session that reads no folder_channels from the file
LoadSessionNoHistory(st, user_id) ==
    [session_string |-> IF user_id \in DOMAIN st THEN st[user_id].session_string
                        ELSE NoCred,
     active_folders |-> IF user_id \in DOMAIN st THEN st[user_id].active_folders
                        ELSE EmptyDict,
     folder_channels |-> EmptyDict]

\* load_session: the saved data, or the default when the user has no file; a
\* key the saved data lacks reads as empty (data.get(key, {}))
LoadSession(st, user_id) ==
    IF user_id \in DOMAIN st
    THEN st[user_id]
    ELSE [session_string |-> NoCred, active_folders |-> EmptyDict,
          folder_channels |-> EmptyDict]

\* save_session: the file of the user is overwritten with data
SaveSession(st, user_id, data) == DictPut(st, user_id, data)

\* whether remote calls made through the client succeed as far as the
\* connection and the authorization go
ClientUsable(c) ==
    /\ c # NoClient
    /\ clients[c].connected
    /\ clients[c].cred \in validCreds

\* the channels iter_dialogs() yields to the user
Dialogs(chs, user_id) ==
    {c \in 1..Len(chs) : chs[c].owner = user_id /\ chs[c].visible}

\* the test of get_or_create_channel with the admin rights left out
ChannelReusableIgnoringRights(chs, user_id, c) == c \in Dialogs(chs, user_id)

\* the test of get_or_create_channel with a comparison that never matches
ChannelNeverFound(chs, user_id, c) == FALSE

\* get_or_create_channel: the saved channel is among the dialogs and
\* channel.admin_rights is set
ChannelReusable(chs, user_id, c) ==
    c \in Dialogs(chs, user_id) /\ chs[c].admin

\* what the remote side answers to the calls of one get_or_create_channel
\* attempt: the dialog listing, then CreateChannelRequest
Attempts == [lookup : {"ok", "error"}, create : {"ok", "flood", "empty", "error"}]

\* the answers to a whole call: FloodWaitError at most MaxAttempts - 1 times
Scripts ==
    {sc \in UNION {[1..n -> Attempts] : n \in 1..MaxAttempts} :
        /\ sc[Len(sc)].create # "flood"
        /\ \A i \in 1..(Len(sc) - 1) : sc[i].create = "flood"}

\* the activations in which the remote side answers every call at once
PlainScripts ==
    {sc \in Scripts : Len(sc) = 1 /\ sc[1].lookup = "ok" /\ sc[1].create = "ok"}

\* get_or_create_channel for folder f of the session us of user_id, in the
\* world w = [store, channels, creates], answered by script sc.  Gives the
\* channel (NoChannel for None) and the world the call leaves.
RECURSIVE GetOrCreateChannel(_, _, _, _, _)
GetOrCreateChannel(user_id, us, f, w, sc) ==
    LET data == LoadSession(w.store, user_id)
        folder_channels == data.folder_channels
        at == Head(sc)
        saved == IF f \in DOMAIN folder_channels THEN folder_channels[f] ELSE NoChannel
        looked == saved # NoChannel /\ at.lookup = "ok"
        reuse == looked /\ ChannelReusable(w.channels, user_id, saved)
        \* the stale entry is deleted and the file saved
        fc1 == IF looked /\ ~reuse THEN DictDel(folder_channels, f) ELSE folder_channels
        store1 == IF looked /\ ~reuse
                  THEN SaveSession(w.store, user_id,
                           [session_string |-> us.session_string,
                            active_folders |-> us.active_folders,
                            folder_channels |-> fc1])
                  ELSE w.store
        new == Len(w.channels) + 1
    IN  IF reuse
        THEN [channel |-> saved, created |-> NoChannel, store |-> w.store,
              channels |-> w.channels, creates |-> w.creates]
        ELSE IF at.create = "ok"
        THEN [channel |-> new, created |-> new,
              store |-> SaveSession(store1, user_id,
                           [session_string |-> us.session_string,
                            active_folders |-> us.active_folders,
                            folder_channels |-> DictPut(fc1, f, new)]),
              channels |-> Append(w.channels,
                           [owner |-> user_id, visible |-> TRUE, admin |-> TRUE]),
              creates |-> w.creates + 1]
        ELSE IF at.create = "flood"
        THEN GetOrCreateChannel(user_id, us, f,
                 [store |-> store1, channels |-> w.channels, creates |-> w.creates + 1],
                 Tail(sc))
        ELSE [channel |-> NoChannel, created |-> NoChannel, store |-> store1,
              channels |-> w.channels, creates |-> w.creates + 1]

\* setup_message_forwarding: the folder's old handler is removed from the
\* client, a new forward_handler is registered for the folder's chats.  Gives
\* the session and the heaps as the call leaves them.
SetupMessageForwarding(us, cls, sbs, user_id, f, channel_id) ==
    LET c == us.client
        old == IF f \in DOMAIN us.folder_handlers THEN {us.folder_handlers[f]} ELSE {}
        cls1 == [cls EXCEPT ![c].handlers = @ \ old]
        h == Len(sbs) + 1
    IN  IF include_peers[f] = {}
        THEN [us |-> us, clients |-> cls1, subs |-> sbs]
        ELSE [us |-> [us EXCEPT !.folder_handlers = DictPut(@, f, h)],
              clients |-> [cls1 EXCEPT ![c].handlers = @ \cup {h}],
              subs |-> Append(sbs, [user |-> user_id, folder |-> f,
                                    channel_id |-> channel_id,
                                    chats |-> include_peers[f]])]

\* activate_folder, as handle_folder_selection calls it for a folder that is
\* not active
activate_folder(user_id, f, sc) ==
    /\ user_id \in DOMAIN users
    /\ users[user_id].client # NoClient
    /\ f \notin DOMAIN users[user_id].active_folders
    /\ ~ClientUsable(users[user_id].client) =>
           \A i \in 1..Len(sc) : sc[i].lookup = "error" /\ sc[i].create = "error"
    /\ LET us == users[user_id]
           before == LoadSession(store, user_id).folder_channels
           had == IF f \in DOMAIN before THEN before[f] ELSE NoChannel
           r == GetOrCreateChannel(user_id, us, f,
                    [store |-> store, channels |-> channels, creates |-> 0], sc)
           us1 == [us EXCEPT !.active_folders = DictPut(@, f, r.channel)]
           s == SetupMessageForwarding(us1, clients, subs, user_id, f, r.channel)
           after == LoadSession(r.store, user_id).folder_channels
       IN  /\ Len(r.channels) <= MaxCreated
           /\ Len(s.subs) <= MaxHandlers
           /\ store' = r.store
           /\ channels' = r.channels
           /\ IF r.channel = NoChannel
              THEN UNCHANGED <<users, clients, subs>>
              ELSE /\ users' = [users EXCEPT ![user_id] = s.us]
                   /\ clients' = s.clients
                   /\ subs' = s.subs
           /\ lastActivate' =
                  [made |-> TRUE, user |-> user_id, folder |-> f, had |-> had,
                   lookup |-> sc[1].lookup,
                   resolved |-> had # NoChannel /\ had \in Dialogs(channels, user_id),
                   admin |-> had # NoChannel /\ channels[had].admin,
                   result |-> r.channel # NoChannel,
                   channel |-> r.channel, creates |-> r.creates,
                   created |-> r.created,
                   persisted |-> IF f \in DOMAIN after THEN after[f] ELSE NoChannel,
                   usable |-> ClientUsable(us.client),
                   prior |-> IF lastDeactivate.made /\ lastDeactivate.user = user_id
                                    /\ lastDeactivate.folder = f
                             THEN lastDeactivate.channel ELSE NoChannel,
                   alive |-> {c \in Dialogs(channels, user_id) : channels[c].admin},
                   told |-> FolderSelectionReply("activate", r.channel # NoChannel)]
           /\ lastDeactivate' = NoDeactivate
    /\ UNCHANGED <<validCreds, nextCred, events, invocations, finished, forwards,
                   restarts>>
    /\ UNCHANGED <<queues, tasks, stop_events, qitems, evset, workers,
                   message_cache>>
    /\ AOthersButLast

\* deactivate_folder, as handle_folder_selection calls it for an active folder
deactivate_folder(user_id, f) ==
    /\ user_id \in DOMAIN users
    /\ f \in DOMAIN users[user_id].active_folders
    /\ LET us == users[user_id]
           channel_id == us.active_folders[f]
           s == StopProcessing(QState, channel_id)
           h == IF f \in DOMAIN us.folder_handlers THEN {us.folder_handlers[f]} ELSE {}
       IN  /\ queues' = s.queues
           /\ tasks' = s.tasks
           /\ stop_events' = s.stop_events
           /\ evset' = s.evset
           /\ workers' = s.workers
           /\ clients' = IF h = {} THEN clients
                         ELSE [clients EXCEPT ![us.client].handlers = @ \ h]
           /\ users' = [users EXCEPT ![user_id].folder_handlers = DictDel(@, f),
                                     ![user_id].active_folders = DictDel(@, f)]
           /\ lastDeactivate' =
                  [made |-> TRUE, user |-> user_id, folder |-> f,
                   channel |-> channel_id,
                   handler |-> IF h = {} THEN 0 ELSE us.folder_handlers[f]]
    /\ UNCHANGED <<subs, store, channels, validCreds, nextCred, events,
                   invocations, finished, forwards, lastActivate, restarts>>
    /\ UNCHANGED <<qitems, message_cache>>
    /\ AOthersButLast

\* start_auth_process / handle_auth_choice up to qr_login.wait(): the client
\* is made if the session has none, and connected
start_auth_process(user_id) ==
    /\ user_id \in DOMAIN users
    /\ ~users[user_id].is_authorized
    /\ LET us == users[user_id]
           fresh == us.client = NoClient
           c == IF fresh THEN Len(clients) + 1 ELSE us.client
       IN  /\ IF fresh THEN TRUE ELSE ~clients[c].connected
           /\ fresh => Len(clients) < MaxClients
           /\ clients' = IF fresh
                         THEN Append(clients, [owner |-> user_id, connected |-> TRUE,
                                               cred |-> NoCred, handlers |-> {}])
                         ELSE [clients EXCEPT ![c].connected = TRUE]
           /\ users' = [users EXCEPT ![user_id].client = c]
    /\ UNCHANGED <<subs, store, channels, validCreds, nextCred, events,
                   invocations, finished, forwards, lastActivate, restarts>>
    /\ UNCHANGED <<queues, tasks, stop_events, qitems, evset, workers,
                   message_cache>>
    /\ AOthers

\* start_auth_process / handle_auth_choice after qr_login.wait() returned: the
\* session becomes authorized and is saved; the saved data has the keys
\* session_string and active_folders only
qr_login_succeeds(user_id) ==
    /\ user_id \in DOMAIN users
    /\ ~users[user_id].is_authorized
    /\ users[user_id].client # NoClient
    /\ clients[users[user_id].client].connected
    /\ nextCred <= MaxLogins
    /\ LET us == users[user_id]
       IN  /\ clients' = [clients EXCEPT ![us.client].cred = nextCred]
           /\ users' = [users EXCEPT ![user_id].is_authorized = TRUE,
                                     ![user_id].session_string = nextCred]
           /\ store' = SaveSession(store, user_id,
                           [session_string |-> nextCred,
                            active_folders |-> us.active_folders,
                            folder_channels |-> EmptyDict])
    /\ validCreds' = validCreds \cup {nextCred}
    /\ nextCred' = nextCred + 1
    /\ lastDeactivate' = NoDeactivate
    /\ UNCHANGED <<subs, channels, events, invocations, finished, forwards,
                   lastActivate, restarts>>
    /\ UNCHANGED <<queues, tasks, stop_events, qitems, evset, workers,
                   message_cache>>
    /\ AOthersButLast

\* remote: a channel is deleted or left and is no longer among the dialogs
channel_disappears(c) ==
    /\ c \in 1..Len(channels)
    /\ channels[c].visible
    /\ channels' = [channels EXCEPT ![c].visible = FALSE]
    /\ UNCHANGED <<users, clients, subs, store, validCreds, nextCred, events,
                   invocations, finished, forwards, lastActivate, restarts>>
    /\ UNCHANGED <<queues, tasks, stop_events, qitems, evset, workers,
                   message_cache>>
    /\ AOthers

\* remote: the user loses the admin rights on a channel
admin_rights_lost(c) ==
    /\ c \in 1..Len(channels)
    /\ channels[c].admin
    /\ channels' = [channels EXCEPT ![c].admin = FALSE]
    /\ UNCHANGED <<users, clients, subs, store, validCreds, nextCred, events,
                   invocations, finished, forwards, lastActivate, restarts>>
    /\ UNCHANGED <<queues, tasks, stop_events, qitems, evset, workers,
                   message_cache>>
    /\ AOthers

(***************************************************************************)
(* New messages and the forward handlers                                   *)
(***************************************************************************)
\* UserSession.init_client: a new TelegramClient takes the place of the
\* session's client, made from session_string when there is one; it is
\* connected and has no event handler
InitClient(us, cls, user_id) ==
    [us |-> [us EXCEPT !.client = Len(cls) + 1],
     clients |-> Append(cls, [owner |-> user_id, connected |-> TRUE,
                              cred |-> us.session_string, handlers |-> {}])]

\* UserSession.ensure_connected
EnsureConnected(us, cls, user_id) ==
    LET i == IF us.client = NoClient \/ ~cls[us.client].connected
             THEN InitClient(us, cls, user_id)
             ELSE [us |-> us, clients |-> cls]
    IN  IF i.clients[i.us.client].cred \notin validCreds
        THEN [ok |-> FALSE, us |-> [i.us EXCEPT !.is_authorized = FALSE],
              clients |-> i.clients]
        ELSE [ok |-> TRUE, us |-> i.us, clients |-> i.clients]

\* the session may post into the channel
CanPost(chs, user_id, c) ==
    /\ c \in 1..Len(chs)
    /\ chs[c].owner = user_id
    /\ chs[c].visible
    /\ chs[c].admin

\* a message is posted in a source chat: every connected, authorized client
\* calls its handlers whose NewMessage(chats=...) filter matches
new_message(message) ==
    /\ message \notin events
    /\ Cardinality(events) < MaxEvents
    /\ events' = events \cup {message}
    /\ invocations' = invocations \cup
           {[h |-> h, event |-> message, pc |-> "start",
             client |-> NoClient, called |-> 0, seconds |-> 0] :
               h \in {x \in 1..Len(subs) :
                        /\ message.chat_id \in subs[x].chats
                        /\ \E c \in 1..Len(clients) :
                               ClientUsable(c) /\ x \in clients[c].handlers}}
    /\ UNCHANGED <<users, clients, subs, store, channels, validCreds, nextCred,
                   finished, forwards, lastActivate, restarts>>
    /\ UNCHANGED <<queues, tasks, stop_events, qitems, evset, workers,
                   message_cache>>
    /\ AOthers

\* what forward_messages answers
Answers == {"ok", "flood", "error", "entity_error"}

\* the record of a forward_handler call that returned
Finished(inv, outcome, calls) ==
    [h |-> inv.h, user |-> subs[inv.h].user, folder |-> subs[inv.h].folder,
     channel |-> subs[inv.h].channel_id, event |-> inv.event,
     outcome |-> outcome, calls |-> calls,
     called |-> inv.called, seconds |-> inv.seconds, ended |-> now]

\* forward_handler from its start to the forward_messages call (or to its
\* return when it does not get that far): ensure_connected, the duplicate
\* check, the chat test
forward_handler(inv) ==
    /\ inv \in invocations
    /\ inv.pc = "start"
    /\ LET h == subs[inv.h]
           user_id == h.user
           ec == EnsureConnected(users[user_id], clients, user_id)
           d == IsDuplicate(message_cache, inv.event, now)
           forwarding == ec.ok /\ ~d.dup /\ inv.event.chat_id \in h.chats
           outcome == IF ~ec.ok THEN "not_connected"
                      ELSE IF d.dup THEN "duplicate"
                      ELSE "other_chat"
       IN  /\ Len(ec.clients) <= MaxClients
           /\ users' = [users EXCEPT ![user_id] = ec.us]
           /\ clients' = ec.clients
           /\ message_cache' = IF ec.ok THEN d.cache ELSE message_cache
           /\ IF forwarding
              THEN /\ invocations' = (invocations \ {inv}) \cup
                          {[inv EXCEPT !.pc = "sending", !.client = ec.us.client,
                                       !.called = now]}
                   /\ UNCHANGED finished
              ELSE /\ invocations' = invocations \ {inv}
                   /\ finished' = finished \cup {Finished(inv, outcome, 0)}
    /\ UNCHANGED <<subs, store, channels, validCreds, nextCred, events,
                   forwards, lastActivate, restarts>>
    /\ UNCHANGED <<queues, tasks, stop_events, qitems, evset, workers>>
    /\ AOthers

\* asyncio.sleep(e.seconds) entered at time t ends at
WakeTimeNoSleep(t, seconds) == t

WakeTime(t, seconds) == t + seconds

\* forward_messages answers a forward_handler call that awaits it
forward_messages_returns(inv, answer, seconds) ==
    /\ inv \in invocations
    /\ inv.pc = "sending"
    /\ LET h == subs[inv.h]
           user_id == h.user
           ic == IF answer = "entity_error"
                 THEN InitClient(users[user_id], clients, user_id)
                 ELSE [us |-> users[user_id], clients |-> clients]
       IN  /\ Len(ic.clients) <= MaxClients
           /\ answer = "ok" =>
                  (ClientUsable(inv.client) /\ CanPost(channels, user_id, h.channel_id))
           /\ users' = [users EXCEPT ![user_id] = ic.us]
           /\ clients' = ic.clients
           /\ forwards' = IF answer = "ok"
                          THEN forwards \cup {[message |-> inv.event,
                                               channel |-> h.channel_id]}
                          ELSE forwards
           /\ IF answer = "flood"
              THEN /\ invocations' = (invocations \ {inv}) \cup
                          {[inv EXCEPT !.pc = "sleeping", !.seconds = seconds,
                                       !.called = now]}
                   /\ UNCHANGED finished
              ELSE /\ invocations' = invocations \ {inv}
                   /\ finished' = finished \cup
                          {Finished(inv, IF answer = "ok" THEN "forwarded"
                                         ELSE "forward_failed", 1)}
    /\ UNCHANGED <<subs, store, channels, validCreds, nextCred, events,
                   lastActivate, restarts>>
    /\ UNCHANGED <<queues, tasks, stop_events, qitems, evset, workers,
                   message_cache>>
    /\ AOthers

\* asyncio.sleep(e.seconds) is over: forward_handler returns
flood_sleep_ends(inv) ==
    /\ inv \in invocations
    /\ inv.pc = "sleeping"
    /\ now >= WakeTime(inv.called, inv.seconds)
    /\ invocations' = invocations \ {inv}
    /\ finished' = finished \cup {Finished(inv, "flood_wait", 1)}
    /\ UNCHANGED <<users, clients, subs, store, channels, validCreds, nextCred,
                   events, forwards, lastActivate, restarts>>
    /\ UNCHANGED <<queues, tasks, stop_events, qitems, evset, workers,
                   message_cache>>
    /\ AOthers

\* time passes while the handlers run
FTick(d) ==
    /\ invocations # {}
    /\ now + d <= MaxForwardTime
    /\ now' = now + d
    /\ UNCHANGED <<qvars, dvars, bvars, avars, lastStopAll, watchdog, xvars>>

\* logins, and activations and deactivations of every kind of folder, the
\* remote side answering as it may
ONext ==
    \/ \E u \in Users : get_user_session(u)
    \/ \E u \in Users : start_auth_process(u)
    \/ \E u \in Users : qr_login_succeeds(u)
    \/ \E u \in Users, f \in Folders \cup EmptyFolders, sc \in Scripts :
           activate_folder(u, f, sc)
    \/ \E u \in Users, f \in Folders \cup EmptyFolders : deactivate_folder(u, f)

\* forward_handler with the moment at which it calls forward_messages:
\* asyncio.sleep(FORWARD_DELAY) is over and the call is made, with the
\* channel_id of the closure
Issued(inv) == \E r \in issued : r.h = inv.h /\ r.event = inv.event

forward_delay_ends(inv) ==
    /\ inv \in invocations
    /\ inv.pc = "sending"
    /\ ~Issued(inv)
    /\ issued' = issued \cup
           {[h |-> inv.h, event |-> inv.event, channel |-> subs[inv.h].channel_id,
             deactivated |-> (lastDeactivate.made /\ lastDeactivate.handler = inv.h)]}
    /\ UNCHANGED <<qvars, now, dvars, bvars, avars, lastStopAll, watchdog,
                   evars, tvars, pvars, lvars, gvars, kvars>>

\* the call that was made is answered
forward_call_returns(inv, answer, seconds) ==
    /\ inv \in invocations
    /\ Issued(inv)
    /\ forward_messages_returns(inv, answer, seconds)

\* logins, activations and deactivations, new messages and their forwarding
VNext ==
    \/ \E u \in Users : get_user_session(u)
    \/ \E u \in Users : start_auth_process(u)
    \/ \E u \in Users : qr_login_succeeds(u)
    \/ \E u \in Users, f \in Folders, sc \in PlainScripts : activate_folder(u, f, sc)
    \/ \E u \in Users, f \in Folders : deactivate_folder(u, f)
    \/ \E m \in Messages : new_message(m)
    \/ \E inv \in invocations : forward_handler(inv)
    \/ \E inv \in invocations : forward_delay_ends(inv)
    \/ \E inv \in invocations, a \in Answers, n \in FloodSeconds :
           forward_call_returns(inv, a, n)
    \/ \E inv \in invocations : flood_sleep_ends(inv)
    \/ \E d \in TimeSteps : FTick(d)

(***************************************************************************)
(* TelegramBot.check_connections                                           *)
(***************************************************************************)
WOthers ==
    UNCHANGED <<qvars, now, dvars, bvars, lastStopAll, subs, store, channels,
                nextCred, events, invocations, finished, forwards, lastActivate,
                lastDeactivate, restarts, xvars>>

\* what the remote side answers during one check of a session: to connect(),
\* to is_user_authorized() (an answer or an exception) and to get_me()
WatchAnswers == [connect : {"ok", "fail"}, auth : {"ok", "error"},
                 me : {"ok", "none", "error"}]

\* init_client: self.client is a new object whatever connect() does after.
\* The object it replaces is freed when nothing else holds it (it is not
\* connected and has no handler), and the new one takes its place in the heap.
InitClientWith(us, cls, user_id, connect) ==
    LET new == [owner |-> user_id, connected |-> connect = "ok",
                cred |-> us.session_string, handlers |-> {}]
        freed == IF us.client = NoClient THEN FALSE
                 ELSE ~cls[us.client].connected /\ cls[us.client].handlers = {}
    IN  IF freed
        THEN [ok |-> connect = "ok", us |-> us,
              clients |-> [cls EXCEPT ![us.client] = new]]
        ELSE [ok |-> connect = "ok",
              us |-> [us EXCEPT !.client = Len(cls) + 1],
              clients |-> Append(cls, new)]

\* ensure_connected that makes a new client whatever the one it has
EnsureConnectedAlwaysInit(us, cls, user_id, io) ==
    LET i == [ok |-> io.connect = "ok",
              us |-> [us EXCEPT !.client = Len(cls) + 1],
              clients |-> Append(cls, [owner |-> user_id,
                                       connected |-> io.connect = "ok",
                                       cred |-> us.session_string,
                                       handlers |-> {}])]
    IN  IF ~i.ok \/ io.auth = "error"
        THEN [ok |-> FALSE, us |-> i.us, clients |-> i.clients, inits |-> 1]
        ELSE IF i.clients[i.us.client].cred \notin validCreds
        THEN [ok |-> FALSE, us |-> [i.us EXCEPT !.is_authorized = FALSE],
              clients |-> i.clients, inits |-> 1]
        ELSE [ok |-> TRUE, us |-> i.us, clients |-> i.clients, inits |-> 1]

\* ensure_connected that leaves is_authorized as it finds it
EnsureConnectedKeepsAuthorized(us, cls, user_id, io) ==
    LET need == us.client = NoClient \/ ~cls[us.client].connected
        i == IF need THEN InitClientWith(us, cls, user_id, io.connect)
             ELSE [ok |-> TRUE, us |-> us, clients |-> cls]
        inits == IF need THEN 1 ELSE 0
    IN  IF ~i.ok \/ io.auth = "error"
        THEN [ok |-> FALSE, us |-> i.us, clients |-> i.clients, inits |-> inits]
        ELSE [ok |-> i.clients[i.us.client].cred \in validCreds, us |-> i.us,
              clients |-> i.clients, inits |-> inits]

\* ensure_connected with the answers io
EnsureConnectedWith(us, cls, user_id, io) ==
    LET need == us.client = NoClient \/ ~cls[us.client].connected
        i == IF need THEN InitClientWith(us, cls, user_id, io.connect)
             ELSE [ok |-> TRUE, us |-> us, clients |-> cls]
        inits == IF need THEN 1 ELSE 0
    IN  IF ~i.ok \/ io.auth = "error"
        THEN [ok |-> FALSE, us |-> i.us, clients |-> i.clients, inits |-> inits]
        ELSE IF i.clients[i.us.client].cred \notin validCreds
        THEN [ok |-> FALSE, us |-> [i.us EXCEPT !.is_authorized = FALSE],
              clients |-> i.clients, inits |-> inits]
        ELSE [ok |-> TRUE, us |-> i.us, clients |-> i.clients, inits |-> inits]

\* the body of the for loop for an authorized session: the connection state,
\* the authorization, get_me.  Gives the session and the clients as the body
\* leaves them, whether the session passed and how often init_client ran.
CheckSession(us, cls, user_id, io) ==
    LET need == us.client = NoClient \/ ~cls[us.client].connected
        a == IF need THEN EnsureConnectedWith(us, cls, user_id, io)
             ELSE [ok |-> TRUE, us |-> us, clients |-> cls, inits |-> 0]
        authed == a.clients[a.us.client].cred \in validCreds
        b == IF authed
             THEN [ok |-> TRUE, us |-> a.us, clients |-> a.clients]
             ELSE InitClientWith([a.us EXCEPT !.is_authorized = FALSE], a.clients,
                                 user_id, io.connect)
        binits == a.inits + (IF authed THEN 0 ELSE 1)
        me == IF authed THEN io.me ELSE IF io.me = "ok" THEN "none" ELSE io.me
        c == IF me = "ok"
             THEN [us |-> b.us, clients |-> b.clients]
             ELSE InitClientWith(b.us, b.clients, user_id, io.connect)
    IN  IF ~a.ok \/ io.auth = "error"
        THEN [us |-> a.us, clients |-> a.clients, result |-> "failed",
              inits |-> a.inits]
        ELSE IF ~b.ok
        THEN [us |-> b.us, clients |-> b.clients, result |-> "failed",
              inits |-> binits]
        ELSE [us |-> c.us, clients |-> c.clients,
              result |-> IF me = "ok" THEN "ok" ELSE "failed",
              inits |-> binits + (IF me = "ok" THEN 0 ELSE 1)]

\* the sessions the for loop has still to visit after the body ended for u
\* with an exception that only a try around the whole loop would catch
RemainingOuterTryOnly(left, u, result) ==
    IF result = "failed" THEN {} ELSE left \ {u}

\* the sessions the for loop has still to visit after the body ended for u:
\* every exception of the body is caught inside the loop
Remaining(left, u, result) == left \ {u}

\* the for loop over self.users.items() begins
round_starts ==
    /\ watchdog.pc = "sleeping"
    /\ watchdog' = [watchdog EXCEPT !.pc = "scanning", !.left = DOMAIN users,
                                    !.size = Cardinality(DOMAIN users),
                                    !.started = DOMAIN users, !.log = <<>>,
                                    !.outcome = "running"]
    /\ UNCHANGED <<users, clients, validCreds>>
    /\ WOthers

\* one iteration of the for loop: the session of u is skipped when it is not
\* authorized, checked otherwise
check_session(u, io) ==
    /\ watchdog.pc = "scanning"
    /\ Cardinality(DOMAIN users) = watchdog.size
    /\ u \in watchdog.left
    /\ IF ~users[u].is_authorized
       THEN /\ io = [connect |-> "ok", auth |-> "ok", me |-> "ok"]
            /\ watchdog' = [watchdog EXCEPT
                               !.left = @ \ {u},
                               !.log = Append(@, [user |-> u, result |-> "skipped"])]
            /\ UNCHANGED <<users, clients>>
       ELSE LET r == CheckSession(users[u], clients, u, io)
            IN  /\ Len(r.clients) <= MaxWatchClients
                /\ r.result # "ok" => watchdog.attempts[u] + r.inits <= MaxWatchAttempts
                /\ users' = [users EXCEPT ![u] = r.us]
                /\ clients' = r.clients
                /\ watchdog' = [watchdog EXCEPT
                       !.left = Remaining(@, u, r.result),
                       !.log = Append(@, [user |-> u, result |-> r.result]),
                       !.attempts[u] = IF r.result = "ok" THEN 0 ELSE @ + r.inits]
    /\ UNCHANGED validCreds
    /\ WOthers

\* the dictionary got a new user while the loop was at an await: the next
\* step of the iteration raises RuntimeError, the except around the loop
\* logs it and the round is over
iteration_raises ==
    /\ watchdog.pc = "scanning"
    /\ Cardinality(DOMAIN users) # watchdog.size
    /\ watchdog' = [watchdog EXCEPT !.pc = "sleeping", !.left = {},
                                    !.outcome = "aborted"]
    /\ UNCHANGED <<users, clients, validCreds>>
    /\ WOthers

\* the for loop is through, asyncio.sleep(30) begins
round_ends ==
    /\ watchdog.pc = "scanning"
    /\ Cardinality(DOMAIN users) = watchdog.size
    /\ watchdog.left = {}
    /\ watchdog' = [watchdog EXCEPT !.pc = "sleeping", !.outcome = "complete"]
    /\ UNCHANGED <<users, clients, validCreds>>
    /\ WOthers

\* the connection of the session's client breaks
connection_lost(u) ==
    /\ u \in DOMAIN users
    /\ users[u].client # NoClient
    /\ clients[users[u].client].connected
    /\ clients' = [clients EXCEPT ![users[u].client].connected = FALSE]
    /\ UNCHANGED <<users, validCreds, watchdog>>
    /\ WOthers

\* remote: the authorization of the session's credential is withdrawn
authorization_revoked(u) ==
    /\ u \in DOMAIN users
    /\ users[u].session_string \in validCreds
    /\ validCreds' = validCreds \ {users[u].session_string}
    /\ UNCHANGED <<users, clients, watchdog>>
    /\ WOthers

WNext ==
    \/ \E u \in WUsers : get_user_session(u)
    \/ \E u \in WUsers : start_auth_process(u)
    \/ \E u \in WUsers : qr_login_succeeds(u)
    \/ \E u \in WUsers : connection_lost(u)
    \/ \E u \in WUsers : authorization_revoked(u)
    \/ round_starts
    \/ \E u \in WUsers, io \in WatchAnswers : check_session(u, io)
    \/ iteration_raises
    \/ round_ends

\* a user who writes to the bot for the first time while a round runs
LateUsers == {3}

\* a QR login that ends while check_connections sleeps
login_between_rounds(u) ==
    /\ watchdog.pc = "sleeping"
    /\ qr_login_succeeds(u)

\* rounds of check_connections, and sessions made at any time; the users who
\* log in do so between two rounds
RNext ==
    \/ \E u \in WUsers \cup LateUsers : get_user_session(u)
    \/ \E u \in WUsers : start_auth_process(u)
    \/ \E u \in WUsers : login_between_rounds(u)
    \/ round_starts
    \/ \E u \in WUsers \cup LateUsers, io \in WatchAnswers : check_session(u, io)
    \/ iteration_raises
    \/ round_ends

(***************************************************************************)
(* UserSession.ensure_connected called by itself                           *)
(***************************************************************************)
NoEnsure == [made |-> FALSE, user |-> 0, need |-> FALSE, connect |-> "ok",
             auth |-> "ok", valid |-> FALSE, ok |-> FALSE, was |-> FALSE,
             is |-> FALSE, connected |-> FALSE, cred |-> NoCred,
             session_string |-> NoCred, same |-> FALSE, again |-> FALSE]

\* the answers to connect() and is_user_authorized() during one call
EnsureAnswers == [connect : {"ok", "fail"}, auth : {"ok", "error"}]

\* ensure_connected: the session reconnects when its client is missing or not
\* connected, then asks whether the user is authorized
ensure_connected(u, io) ==
    /\ u \in DOMAIN users
    /\ LET us == users[u]
           need == us.client = NoClient \/ ~clients[us.client].connected
           r == EnsureConnectedWith(us, clients, u, io)
           r2 == EnsureConnectedWith(r.us, r.clients, u, io)
       IN  /\ Len(r.clients) <= MaxWatchClients
           /\ ~need => io.connect = "ok"
           /\ users' = [users EXCEPT ![u] = r.us]
           /\ clients' = r.clients
           /\ lastEnsure' =
                  [made |-> TRUE, user |-> u, need |-> need,
                   connect |-> io.connect, auth |-> io.auth,
                   valid |-> us.session_string \in validCreds,
                   ok |-> r.ok, was |-> us.is_authorized,
                   is |-> r.us.is_authorized,
                   connected |-> r.clients[r.us.client].connected,
                   cred |-> r.clients[r.us.client].cred,
                   session_string |-> us.session_string,
                   same |-> (r.us = us /\ r.clients = clients),
                   again |-> (r2.ok = r.ok /\ r2.us = r.us /\ r2.clients = r.clients)]
    /\ UNCHANGED <<qvars, now, dvars, bvars, lastStopAll, watchdog, subs, store,
                   channels, validCreds, nextCred, events, invocations, finished,
                   forwards, lastActivate, lastDeactivate, restarts, tvars, pvars, yvars>>

SNext ==
    \/ \E u \in Users : get_user_session(u)
    \/ \E u \in Users : start_auth_process(u)
    \/ \E u \in Users : qr_login_succeeds(u)
    \/ \E u \in Users, f \in Folders, sc \in PlainScripts : activate_folder(u, f, sc)
    \/ \E u \in Users : connection_lost(u)
    \/ \E u \in Users : authorization_revoked(u)
    \/ \E u \in Users, io \in EnsureAnswers : ensure_connected(u, io)

\* the process ends and a new one starts: everything held in memory is gone,
\* the session files and the remote side stay
restart ==
    /\ restarts < MaxRestarts
    /\ restarts' = restarts + 1
    /\ users' = EmptyDict
    /\ clients' = <<>>
    /\ subs' = <<>>
    /\ invocations' = {}
    /\ message_cache' = EmptyDict
    /\ queues' = EmptyDict
    /\ tasks' = EmptyDict
    /\ stop_events' = EmptyDict
    /\ qitems' = <<>>
    /\ evset' = <<>>
    /\ unfinished' = <<>>
    /\ workers' = <<>>
    /\ putters' = <<>>
    /\ failures' = 0
    /\ last_failure_time' = 0
    /\ inflight' = 0
    /\ lastActivate' = NoActivate
    /\ lastStopAll' = NoStopAll
    /\ lastDeactivate' = NoDeactivate
    /\ watchdog' = WatchdogIdle
    /\ UNCHANGED xvars
    /\ UNCHANGED <<store, channels, validCreds, nextCred, events, finished,
                   forwards>>
    /\ UNCHANGED <<now, nextMsg, accepted, handled, addlog, failed, deliveries, streak,
                   lastFail, trial, lastCall, lastEvent>>

(***************************************************************************)
(* The sign-in flows: start_auth_process and handle_auth_choice (QR login) *)
(* of src/app/handlers.py and the code sign-in of the message handler of   *)
(* src/app/bot.py, from the await of qr_login.wait() or client.sign_in()   *)
(* to the answer sent to the user.                                         *)
(***************************************************************************)
AuthFlows == {"qr", "code"}
AuthOutcomes == {"ok", "timeout", "error"}

NoLogin == [made |-> FALSE, user |-> 0, flow |-> "none", outcome |-> "none",
            told |-> "nothing", was |-> FALSE, is |-> FALSE,
            before |-> NewUserSession, after |-> NewUserSession]

LInit == lastLogin = NoLogin

\* what the user is told when the flow is over: the QR handlers tell a
\* timeout from other errors, the code sign-in has one except clause
AuthReply(flow, outcome) ==
    IF outcome = "ok" THEN "authorized"
    ELSE IF flow = "qr" /\ outcome = "timeout" THEN "timeout"
    ELSE "error"

\* a flow that marks the session authorized before it awaits the sign-in
AuthorizedAfterEager(was, outcome) == TRUE

\* is_authorized when the flow is over: assigned True after the awaited
\* call returned, untouched when it raised
AuthorizedAfter(was, outcome) == IF outcome = "ok" THEN TRUE ELSE was

\* the data the sign-in handlers save: session_string and active_folders;
\* there is no folder_channels key, which reads as empty
LoginData(st, user_id, cred, active) ==
    [session_string |-> cred, active_folders |-> active,
     folder_channels |-> EmptyDict]

\* qr_login.wait() or client.sign_in() comes to an end: on success the
\* session is marked authorized, its session string taken from the client
\* and saved, and the user told so; on a timeout or an error the except
\* clause answers the user and nothing else is done
auth_flow_ends(user_id, flow, outcome) ==
    /\ user_id \in DOMAIN users
    /\ ~users[user_id].is_authorized
    /\ users[user_id].client # NoClient
    /\ clients[users[user_id].client].connected
    /\ flow = "code" => outcome # "timeout"
    /\ outcome = "ok" => nextCred <= MaxLogins
    /\ LET us == users[user_id]
           ok == outcome = "ok"
           us2 == [us EXCEPT
                      !.is_authorized = AuthorizedAfter(us.is_authorized, outcome),
                      !.session_string = IF ok THEN nextCred ELSE @]
           store2 == IF ok
                     THEN SaveSession(store, user_id,
                              LoginData(store, user_id, nextCred, us.active_folders))
                     ELSE store
       IN  /\ clients' = IF ok THEN [clients EXCEPT ![us.client].cred = nextCred]
                         ELSE clients
           /\ users' = [users EXCEPT ![user_id] = us2]
           /\ store' = store2
           /\ validCreds' = IF ok THEN validCreds \cup {nextCred} ELSE validCreds
           /\ nextCred' = IF ok THEN nextCred + 1 ELSE nextCred
           /\ lastLogin' = [made |-> TRUE, user |-> user_id, flow |-> flow,
                            outcome |-> outcome, told |-> AuthReply(flow, outcome),
                            was |-> us.is_authorized, is |-> us2.is_authorized,
                            before |-> LoadSession(store, user_id),
                            after |-> LoadSession(store2, user_id)]
    /\ lastDeactivate' = IF outcome = "ok" THEN NoDeactivate ELSE lastDeactivate
    /\ UNCHANGED <<subs, channels, events, invocations, finished, forwards,
                   lastActivate, restarts>>
    /\ UNCHANGED <<queues, tasks, stop_events, qitems, evset, workers,
                   message_cache>>
    /\ UNCHANGED <<now, bvars, putters, nextMsg, accepted, handled, addlog,
                   unfinished, failed, deliveries, lastStopAll, watchdog,
                   evars, tvars, pvars, zvars>>

(***************************************************************************)
(* The UserSession of the single-file bot (src/bot.py).  Its client is     *)
(* absent, connected or disconnected; init_client and the calls made on    *)
(* the client answer as the remote side and the network decide.            *)
(***************************************************************************)
LegacyClients == {"none", "connected", "disconnected"}

\* client.connect(): a truthy value, a falsy one, or an exception
ConnectAnswers == {"truthy", "falsy", "raises"}

\* init_client: load_user_data raises; the client is made and connect() raises;
\* the client connects and is, or is not, authorized
InitAnswers == {"load_raises", "connect_raises", "unauthorized", "authorized"}

\* client.is_user_authorized()
AuthorizedAnswers == {"yes", "no", "raises"}

NoLegacyCall == [made |-> FALSE, down |-> FALSE, before |-> 0, after |-> 0,
                 attempted |-> FALSE, was |-> FALSE, is |-> FALSE,
                 ret |-> FALSE]

GInit ==
    /\ legacy = [client |-> "none", is_authorized |-> FALSE,
                 reconnect_attempts |-> 0]
    /\ lastLegacy = NoLegacyCall

GOthers ==
    UNCHANGED <<qvars, now, dvars, bvars, avars, lastStopAll, watchdog,
                evars, tvars, pvars, lvars, kvars, ivars>>

\* init_client of src/bot.py on the session s, answered by a
LegacyInitClient(s, a) ==
    IF a = "load_raises" THEN s
    ELSE IF a = "connect_raises" THEN [s EXCEPT !.client = "disconnected"]
    ELSE IF a = "unauthorized" THEN [s EXCEPT !.client = "connected"]
    ELSE [s EXCEPT !.client = "connected", !.is_authorized = TRUE]

LegacyDown(s) == s.client # "connected"

\* if self.reconnect_attempts < self.max_reconnect_attempts
MayReconnectAlways(n) == TRUE

MayReconnect(n) == n < max_reconnect_attempts

\* ensure_connected of src/bot.py: the session it leaves and what it returns.
\* c answers client.connect(), i answers init_client, z is_user_authorized.
LegacyEnsureConnected(s, c, i, z) ==
    IF ~LegacyDown(s) THEN [s |-> s, ret |-> TRUE, attempted |-> FALSE]
    ELSE IF ~MayReconnect(s.reconnect_attempts)
    THEN [s |-> [s EXCEPT !.is_authorized = FALSE], ret |-> FALSE,
          attempted |-> FALSE]
    ELSE
        LET s1 == [s EXCEPT !.reconnect_attempts = @ + 1]
        IN  IF s1.client # "none" /\ c = "raises"
            THEN [s |-> s1, ret |-> FALSE, attempted |-> TRUE]
            ELSE
                LET s2 == IF s1.client = "none" \/ c = "falsy"
                          THEN LegacyInitClient(s1, i)
                          ELSE [s1 EXCEPT !.client = "connected"]
                IN  IF s2.client = "none" \/ z = "raises"
                    THEN [s |-> s2, ret |-> FALSE, attempted |-> TRUE]
                    ELSE IF z = "no"
                    THEN [s |-> [s2 EXCEPT !.is_authorized = FALSE],
                          ret |-> FALSE, attempted |-> TRUE]
                    ELSE [s |-> s2, ret |-> TRUE, attempted |-> TRUE]

legacy_ensure_connected(c, i, z) ==
    /\ LET r == LegacyEnsureConnected(legacy, c, i, z)
       IN  /\ legacy' = r.s
           /\ lastLegacy' = [made |-> TRUE, down |-> LegacyDown(legacy),
                             before |-> legacy.reconnect_attempts,
                             after |-> r.s.reconnect_attempts,
                             attempted |-> r.attempted,
                             was |-> legacy.is_authorized,
                             is |-> r.s.is_authorized, ret |-> r.ret]
    /\ GOthers

\* the /start handler and the forward handler call init_client
legacy_init_client(i) ==
    /\ legacy' = LegacyInitClient(legacy, i)
    /\ UNCHANGED lastLegacy
    /\ GOthers

\* the network drops the client's connection
legacy_connection_lost ==
    /\ legacy.client = "connected"
    /\ legacy' = [legacy EXCEPT !.client = "disconnected"]
    /\ UNCHANGED lastLegacy
    /\ GOthers

GNext ==
    \/ \E c \in ConnectAnswers, i \in InitAnswers, z \in AuthorizedAnswers :
           legacy_ensure_connected(c, i, z)
    \/ \E i \in InitAnswers : legacy_init_client(i)
    \/ legacy_connection_lost

\* sign-ins that succeed or fail, activations, and restarts of the process
LNext ==
    \/ \E u \in Users : get_user_session(u)
    \/ \E u \in Users : start_auth_process(u)
    \/ \E u \in Users, fl \in AuthFlows, o \in AuthOutcomes : auth_flow_ends(u, fl, o)
    \/ \E u \in Users, f \in Folders, sc \in PlainScripts : activate_folder(u, f, sc)
    \/ \E u \in Users, f \in Folders : deactivate_folder(u, f)
    \/ \E u \in Users : authorization_revoked(u)
    \/ restart

ANext ==
    \/ \E u \in Users : get_user_session(u)
    \/ \E u \in Users : start_auth_process(u)
    \/ \E u \in Users : qr_login_succeeds(u)
    \/ \E u \in Users, f \in Folders, sc \in Scripts : activate_folder(u, f, sc)
    \/ \E u \in Users, f \in Folders : deactivate_folder(u, f)
    \/ \E c \in 1..MaxCreated : channel_disappears(c)
    \/ \E c \in 1..MaxCreated : admin_rights_lost(c)
    \/ restart

\* logins, activations that meet no remote failure, new messages and their
\* forwarding
FNext ==
    \/ \E u \in Users : get_user_session(u)
    \/ \E u \in Users : start_auth_process(u)
    \/ \E u \in Users : qr_login_succeeds(u)
    \/ \E u \in Users, f \in Folders, sc \in PlainScripts : activate_folder(u, f, sc)
    \/ \E m \in Messages : new_message(m)
    \/ \E inv \in invocations : forward_handler(inv)
    \/ \E inv \in invocations, a \in Answers, n \in FloodSeconds :
           forward_messages_returns(inv, a, n)
    \/ \E inv \in invocations : flood_sleep_ends(inv)
    \/ \E d \in TimeSteps : FTick(d)

(***************************************************************************)
(* BackgroundTaskManager (src/app/background.py).  A record of the manager *)
(* is the entry of a task id in self.tasks, together with the entries of   *)
(* the id in results, callbacks and start_times.  The asyncio task made by *)
(* add_task runs task_wrapper: it is scheduled, starts, and ends in its    *)
(* finally clause.                                                         *)
(***************************************************************************)
MaxTaskIds == 3
MaxWrappers == 3
\* settings.MAX_BACKGROUND_TASKS as add_task reads it
MAX_BACKGROUND_TASKS == 2

TaskIds == 1..MaxTaskIds

NoAdd == [made |-> FALSE, task_id |-> 0, before |-> 0, after |-> 0,
          running |-> 0, raised |-> FALSE, admitted |-> FALSE]

TInit ==
    /\ task_manager = [tasks |-> EmptyDict, results |-> {}, callbacks |-> {},
                       start_times |-> {}]
    /\ wrappers = <<>>
    /\ lastAdd = NoAdd

TOthers ==
    UNCHANGED <<qvars, now, dvars, bvars, avars, lastStopAll, watchdog, evars, pvars,
                yvars>>

\* _remove_task: the id is popped from the four dictionaries
RemoveTask(tm, task_id) ==
    [tasks |-> DictDel(tm.tasks, task_id),
     results |-> tm.results \ {task_id},
     callbacks |-> tm.callbacks \ {task_id},
     start_times |-> tm.start_times \ {task_id}]

\* task.done() of the task recorded under an id
RecordedTaskDone(tm, ws, task_id) == ws[tm.tasks[task_id]].state = "done"

\* _cleanup_tasks: the records whose task is done are removed
CleanupTasks(tm, ws) ==
    LET completed_tasks == {i \in DOMAIN tm.tasks : RecordedTaskDone(tm, ws, i)}
    IN  [tasks |-> [i \in (DOMAIN tm.tasks) \ completed_tasks |-> tm.tasks[i]],
         results |-> tm.results \ completed_tasks,
         callbacks |-> tm.callbacks \ completed_tasks,
         start_times |-> tm.start_times \ completed_tasks]

\* len(self.tasks)
TaskCount(tm) == Cardinality(DOMAIN tm.tasks)

\* add_task with background tasks enabled: at the cap the done records are
\* cleaned up, and when the manager is still at the cap RuntimeError is
\* raised; otherwise the task is created and recorded under its id
add_task(task_id) ==
    LET tm == task_manager
        atcap == TaskCount(tm) >= MAX_BACKGROUND_TASKS
        tm1 == IF atcap THEN CleanupTasks(tm, wrappers) ELSE tm
        raised == atcap /\ TaskCount(tm1) >= MAX_BACKGROUND_TASKS
        tm2 == IF raised THEN tm1
               ELSE [tm1 EXCEPT !.tasks = DictPut(tm1.tasks, task_id, Len(wrappers) + 1),
                                !.callbacks = tm1.callbacks \cup {task_id}]
    IN  /\ raised \/ Len(wrappers) < MaxWrappers
        /\ task_manager' = tm2
        /\ wrappers' = IF raised THEN wrappers
                       ELSE Append(wrappers, [task_id |-> task_id, state |-> "scheduled",
                                              cancel |-> FALSE])
        /\ lastAdd' = [made |-> TRUE, task_id |-> task_id,
                       before |-> TaskCount(tm), after |-> TaskCount(tm2),
                       running |-> Cardinality({i \in DOMAIN tm.tasks :
                                                   ~RecordedTaskDone(tm, wrappers, i)}),
                       raised |-> raised,
                       admitted |-> (~raised /\ task_id \in DOMAIN tm2.tasks)]
        /\ TOthers

\* task_wrapper starts: it records its start time under its id
wrapper_starts(k) ==
    /\ k \in DOMAIN wrappers
    /\ wrappers[k].state = "scheduled"
    /\ ~wrappers[k].cancel
    /\ wrappers' = [wrappers EXCEPT ![k].state = "running"]
    /\ task_manager' = [task_manager EXCEPT
                            !.start_times = @ \cup {wrappers[k].task_id}]
    /\ UNCHANGED lastAdd
    /\ TOthers

\* a task cancelled before its first step never runs task_wrapper
wrapper_never_runs(k) ==
    /\ k \in DOMAIN wrappers
    /\ wrappers[k].state = "scheduled"
    /\ wrappers[k].cancel
    /\ wrappers' = [wrappers EXCEPT ![k].state = "done"]
    /\ UNCHANGED <<task_manager, lastAdd>>
    /\ TOthers

\* task_wrapper ends: the coroutine returned, timed out, failed, or the task
\* was cancelled; in each case the finally clause removes the record that is
\* under the wrapper's id (the result stored on success is popped with it)
wrapper_ends(k) ==
    /\ k \in DOMAIN wrappers
    /\ wrappers[k].state = "running"
    /\ wrappers' = [wrappers EXCEPT ![k].state = "done"]
    /\ task_manager' = RemoveTask(task_manager, wrappers[k].task_id)
    /\ UNCHANGED lastAdd
    /\ TOthers

\* cancel_task: the recorded task is asked to cancel and its record removed
CancelTask(tm, ws, task_id) ==
    IF task_id \in DOMAIN tm.tasks
    THEN [tm |-> RemoveTask(tm, task_id),
          ws |-> [ws EXCEPT ![tm.tasks[task_id]].cancel =
                                (@ \/ ws[tm.tasks[task_id]].state # "done")]]
    ELSE [tm |-> tm, ws |-> ws]

cancel_task(task_id) ==
    /\ task_id \in DOMAIN task_manager.tasks
    /\ LET r == CancelTask(task_manager, wrappers, task_id)
       IN  task_manager' = r.tm /\ wrappers' = r.ws
    /\ UNCHANGED lastAdd
    /\ TOthers

RECURSIVE CancelEach(_, _, _)
CancelEach(tm, ws, ids) ==
    IF ids = {} THEN [tm |-> tm, ws |-> ws]
    ELSE LET i == CHOOSE x \in ids : \A y \in ids : x <= y
             r == CancelTask(tm, ws, i)
         IN  CancelEach(r.tm, r.ws, ids \ {i})

\* BackgroundTaskManager.stop_all: every recorded task is cancelled; no
\* record is left for gather, and the dictionaries are cleared
stop_all_tasks ==
    /\ DOMAIN task_manager.tasks # {}
    /\ LET r == CancelEach(task_manager, wrappers, DOMAIN task_manager.tasks)
       IN  /\ task_manager' = [tasks |-> EmptyDict, results |-> {}, callbacks |-> {},
                               start_times |-> {}]
           /\ wrappers' = r.ws
    /\ UNCHANGED lastAdd
    /\ TOthers

TNext ==
    \/ \E i \in TaskIds : add_task(i)
    \/ \E k \in 1..MaxWrappers : wrapper_starts(k)
    \/ \E k \in 1..MaxWrappers : wrapper_never_runs(k)
    \/ \E k \in 1..MaxWrappers : wrapper_ends(k)
    \/ \E i \in TaskIds : cancel_task(i)
    \/ stop_all_tasks

(***************************************************************************)
(* SessionManager's persistence (src/app/session.py): save_session,        *)
(* load_session, cleanup_session and the conversions under them.           *)
(*                                                                         *)
(* A Python value is a record of its type t and its content v (the text of *)
(* a number, the characters of a string, the items of a dict as a function *)
(* from keys to values).  A JSON text is a record of its kind j and its    *)
(* content v; the members of a JSON object are named by strings.           *)
(***************************************************************************)
PyNone == [t |-> "NoneType", v |-> "None"]
PyStr(s) == [t |-> "str", v |-> s]
PyInt(s) == [t |-> "int", v |-> s]
PyText(s) == [t |-> "TextWithEntities", v |-> s]
PyDict(f) == [t |-> "dict", v |-> f]

JNull == [j |-> "null", v |-> "null"]
JString(s) == [j |-> "string", v |-> s]
JNumber(s) == [j |-> "number", v |-> s]
JObject(f) == [j |-> "object", v |-> f]

\* str(data) of a TextWithEntities object
StrOfText(s) == IF s = "news" THEN "TextWithEntities(text='news', entities=[])"
                ELSE "TextWithEntities()"

\* _serialize_data: dicts are rebuilt with their values converted, a
\* TextWithEntities becomes its str(); other values are returned as they are
RECURSIVE SerializeData(_)
SerializeData(data) ==
    IF data.t = "dict"
    THEN PyDict([k \in DOMAIN data.v |-> SerializeData(data.v[k])])
    ELSE IF data.t = "TextWithEntities" THEN PyStr(StrOfText(data.v))
    ELSE data

\* json.dumps: the members of an object are named by strings, an int key is
\* written as its decimal text
RECURSIVE Dumps(_)
Dumps(o) ==
    IF o.t = "dict"
    THEN JObject([s \in {k.v : k \in DOMAIN o.v} |->
                     Dumps(o.v[CHOOSE k \in DOMAIN o.v : k.v = s])])
    ELSE IF o.t = "str" THEN JString(o.v)
    ELSE IF o.t = "int" THEN JNumber(o.v)
    ELSE JNull

\* json.loads that reads a member name made of digits as an int
RECURSIVE LoadsNumericKeys(_)
LoadsNumericKeys(text) ==
    IF text.j = "object"
    THEN PyDict([k \in {IF s \in {"1", "2"} THEN PyInt(s) ELSE PyStr(s) :
                           s \in DOMAIN text.v} |-> LoadsNumericKeys(text.v[k.v])])
    ELSE IF text.j = "string" THEN PyStr(text.v)
    ELSE IF text.j = "number" THEN PyInt(text.v)
    ELSE PyNone

\* json.loads: an object becomes a dict whose keys are str
RECURSIVE Loads(_)
Loads(text) ==
    IF text.j = "object"
    THEN PyDict([k \in {PyStr(s) : s \in DOMAIN text.v} |-> Loads(text.v[k.v])])
    ELSE IF text.j = "string" THEN PyStr(text.v)
    ELSE IF text.j = "number" THEN PyInt(text.v)
    ELSE PyNone

\* the encryption key before the manager is constructed, and the keys
\* settings.ENCRYPTION_KEY may give it (None: no encryption)
NoManager == "no manager"
EncryptionKeys == {None, "key"}

\* _encrypt_data: the JSON text, as it is or as a Fernet token made with the key
EncryptData(key, data) ==
    [fernet |-> key, body |-> Dumps(SerializeData(data))]

\* _decrypt_data: without a key the bytes are parsed as JSON, which fails on
\* a Fernet token; with a key they are decrypted first, which fails on
\* anything but a token made with that key
DecryptData(key, encrypted_data) ==
    IF encrypted_data.fernet = key
    THEN [raised |-> FALSE, data |-> Loads(encrypted_data.body)]
    ELSE [raised |-> TRUE, data |-> PyNone]

\* what load_session returns when there is no file or reading it fails
DefaultData ==
    PyDict([k \in {PyStr("active_folders"), PyStr("folder_channels")} |->
               PyDict(EmptyDict)])

\* load_session
LoadFile(fs, key, user_id) ==
    IF user_id \notin DOMAIN fs THEN DefaultData
    ELSE LET r == DecryptData(key, fs[user_id])
         IN  IF r.raised THEN DefaultData ELSE r.data

\* save_session: the file named after the user id is overwritten
SaveFile(fs, key, user_id, data) == DictPut(fs, user_id, EncryptData(key, data))

\* data['session_string'] = None
ClearSessionString(data) ==
    PyDict(DictPut(data.v, PyStr("session_string"), PyNone))

\* a cleanup that starts from the default data instead of the file's
CleanupFileFromDefault(fs, key, user_id) ==
    SaveFile(fs, key, user_id, ClearSessionString(DefaultData))

\* cleanup_session: load, clear the session string, save
CleanupFile(fs, key, user_id) ==
    SaveFile(fs, key, user_id, ClearSessionString(LoadFile(fs, key, user_id)))

\* whether a value is made of what JSON has: None, str, int, and dicts with
\* str keys whose values are such values
RECURSIVE JsonRepresentable(_)
JsonRepresentable(o) ==
    IF o.t = "dict"
    THEN \A k \in DOMAIN o.v : k.t = "str" /\ JsonRepresentable(o.v[k])
    ELSE o.t \in {"NoneType", "str", "int"}

\* the data the calls are made with: a session string or None, active
\* folders, and folder -> channel bindings or no such key (the login
\* handlers save none); folder ids are str in the application, an int key
\* and a TextWithEntities title are what a caller could pass besides
ChannelData(title) ==
    PyDict([k \in {PyStr("channel_id"), PyStr("title")} |->
               IF k.v = "channel_id" THEN PyInt("7") ELSE title])
OneFolder(key, title) == PyDict([k \in {key} |-> ChannelData(title)])
SessionStrings == {PyNone, PyStr("1BVts")}
FolderDicts == {PyDict(EmptyDict), OneFolder(PyStr("1"), PyStr("news")),
                OneFolder(PyInt("1"), PyStr("news")),
                OneFolder(PyStr("2"), PyText("news"))}
BindingDicts == {PyDict(EmptyDict), OneFolder(PyStr("1"), PyStr("news"))}
SessionData ==
    {PyDict([k \in {PyStr("session_string"), PyStr("active_folders")} |->
                IF k.v = "session_string" THEN ss ELSE af]) :
        ss \in SessionStrings, af \in FolderDicts}
    \cup
    {PyDict([k \in {PyStr("session_string"), PyStr("active_folders"),
                    PyStr("folder_channels")} |->
                IF k.v = "session_string" THEN ss
                ELSE IF k.v = "active_folders" THEN af ELSE fc]) :
        ss \in SessionStrings, af \in FolderDicts, fc \in BindingDicts}

NoStored == [op |-> "none", user |-> 0, data |-> PyNone, before |-> EmptyDict]

PInit ==
    /\ encryption_key = NoManager
    /\ files = EmptyDict
    /\ lastStored = NoStored

POthers ==
    UNCHANGED <<qvars, now, dvars, bvars, avars, lastStopAll, watchdog, evars, tvars,
                yvars>>

\* what load_session returns for each user
LoadAll(fs, key) == [u \in WUsers |-> LoadFile(fs, key, u)]

\* SessionManager.__init__: the key is taken from the settings
session_manager_init(key) ==
    /\ encryption_key = NoManager
    /\ encryption_key' = key
    /\ UNCHANGED <<files, lastStored>>
    /\ POthers

save_session(user_id, data) ==
    /\ encryption_key # NoManager
    /\ files' = SaveFile(files, encryption_key, user_id, data)
    /\ lastStored' = [op |-> "save", user |-> user_id, data |-> data,
                      before |-> LoadAll(files, encryption_key)]
    /\ UNCHANGED encryption_key
    /\ POthers

cleanup_session(user_id) ==
    /\ encryption_key # NoManager
    /\ files' = CleanupFile(files, encryption_key, user_id)
    /\ lastStored' = [op |-> "cleanup", user |-> user_id, data |-> PyNone,
                      before |-> LoadAll(files, encryption_key)]
    /\ UNCHANGED encryption_key
    /\ POthers

PNext ==
    \/ \E key \in EncryptionKeys : session_manager_init(key)
    \/ \E u \in WUsers, data \in SessionData : save_session(u, data)
    \/ \E u \in WUsers : cleanup_session(u)

XInit ==
    /\ lastEnsure = NoEnsure
    /\ TInit
    /\ PInit
    /\ LInit
    /\ GInit
    /\ KInit
    /\ issued = {}

Init == QInit /\ now = 0 /\ DInit /\ BInit /\ AInit /\ XInit

SpecQueue == Init /\ [][QNext]_vars

\* the event loop runs every task that can take a step, and a handler call
\* comes to an end
QFairness ==
    \A t \in 1..MaxTasks :
        /\ WF_vars(worker_starts(t))
        /\ WF_vars(worker_gets(t))
        /\ WF_vars(\E o \in HandlerOutcomes : handler_ends(t, o))
        /\ WF_vars(worker_ends(t))

SpecQueueLive == Init /\ [][QNext]_vars /\ QFairness

SpecDedup == Init /\ [][DNext]_vars

SpecBreaker == Init /\ [][BNext]_vars

SpecApp == Init /\ [][ANext]_vars

SpecForward == Init /\ [][FNext]_vars

SpecWatchdog == Init /\ [][WNext]_vars

SpecSession == Init /\ [][SNext]_vars

SpecTasks == Init /\ [][TNext]_vars

SpecStore == Init /\ [][PNext]_vars

SpecAuth == Init /\ [][LNext]_vars

SpecLegacy == Init /\ [][GNext]_vars

SpecManager == Init /\ [][KNext]_vars

SpecUnsubscribe == Init /\ [][VNext]_vars

SpecActivate == Init /\ [][ONext]_vars

SpecRound == Init /\ [][RNext]_vars

(***************************************************************************)
(* Claims about MessageQueue, checked under SpecQueue.                     *)
(***************************************************************************)
\* a task that is neither finished nor cancelled
Live(t) == workers[t].pc # "done" /\ ~workers[t].cancel

WorkersOf(c) == {t \in 1..Len(workers) : workers[t].channel = c}

\* C1: whatever start_processing / stop_processing calls were made for a
\* channel, at most one task of that channel is neither finished nor cancelled.
C1_AtMostOneLiveWorker ==
    \A c \in Channels : Cardinality({t \in WorkersOf(c) : Live(t)}) <= 1

\* start, stop, start on one channel: the first task has been cancelled and has
\* not ended yet, the second one is live
C1_Witness ==
    \E c \in Channels : \E t1, t2 \in WorkersOf(c) :
        /\ workers[t1].cancel /\ workers[t1].pc # "done"
        /\ Live(t2) /\ tasks[c] = t2

\* the messages of a sequence
Items(s) == {s[i] : i \in 1..Len(s)}

\* s is a leading part of r
IsPrefix(s, r) == Len(s) <= Len(r) /\ SubSeq(r, 1, Len(s)) = s

\* the task has been asked to stop: cancel() was called on it or the stop
\* event of its queue is set
Stopped(t) ==
    workers[t].cancel \/ (workers[t].q # 0 /\ evset[workers[t].q])

\* a handler call of task t raised an Exception
HasFailed(t) == \E f \in failed : f.task = t

\* the calls of the handler that are in progress on queue q
Handling(q) ==
    {t \in 1..Len(workers) : workers[t].pc = "handling" /\ workers[t].q = q}

\* a task leaves the handler call for its end only when it was cancelled
EndsOnlyCancelled ==
    [][\A t \in 1..Len(workers) :
          (workers[t].pc = "handling" /\ workers'[t].pc = "done")
              => workers[t].cancel]_vars

\* every message taken from a queue is marked done when its handler call is
\* over: the count of unfinished items is that of the queued messages and
\* the handler calls in progress
MarkedDone ==
    \A q \in 1..Len(qitems) :
        unfinished[q] = Len(qitems[q]) + Cardinality(Handling(q))

\* a message that waits in the queue of a task one of whose handler calls
\* raised is handed to the handler, unless the task is asked to stop
HandedAfterFailure ==
    \A t \in 1..MaxTasks : \A m \in 1..MaxMsgs :
        (/\ t \in DOMAIN workers
         /\ HasFailed(t)
         /\ workers[t].pc # "done"
         /\ m \in Items(qitems[workers[t].q]))
            ~> (/\ t \in DOMAIN workers
                /\ (m \in Items(handled[workers[t].channel]) \/ Stopped(t)))

\* C25: an Exception raised by the handler for one message does not end the
\* worker: a worker ends in a handler call only when its task was cancelled,
\* the message is marked done on its queue, and every message that waits in
\* the queue of a worker that had such a failure is handed to the handler
\* unless the worker is asked to stop (the handler calls come to an end).
C25_HandlerFailureContained ==
    EndsOnlyCancelled /\ []MarkedDone /\ HandedAfterFailure

\* a handler call raised, the worker went on, and the message behind the one
\* that failed was handed to the handler by the same worker
C25_Witness ==
    \E c \in Channels :
        /\ Len(handled[c]) >= 2
        /\ \E f \in failed :
               /\ f.msg = handled[c][1]
               /\ workers[f.task].channel = c
               /\ ~Stopped(f.task)
               /\ workers[f.task].pc = "handling"
               /\ workers[f.task].msg = handled[c][2]
        /\ Len(workers) = 1

\* the messages in a queue whose stop event is set are never taken from it
StoppedQueueKeepsItems ==
    [][\A q \in 1..Len(qitems) : evset[q] => IsPrefix(qitems[q], qitems'[q])]_vars

\* a task that has ended stays ended and is in no handler call
EndedStaysEnded ==
    [][\A t \in 1..Len(workers) :
          workers[t].pc = "done" => workers'[t].pc = "done"]_vars

\* stop_processing leaves no task of the channel that is neither done nor
\* cancelled: such a task is the one in self.tasks, its queue the one in
\* self.queues, and the stop event of that queue is the channel's
StopReachesWorker ==
    \A t \in 1..Len(workers) :
        (workers[t].pc # "done" /\ ~workers[t].cancel)
            => /\ workers[t].channel \in DOMAIN tasks
               /\ tasks[workers[t].channel] = t
               /\ workers[t].q # 0
                      => /\ workers[t].channel \in DOMAIN queues
                         /\ queues[workers[t].channel] = workers[t].q
                         /\ stop_events[workers[t].channel] = workers[t].q

\* a task that was asked to stop comes to its end
StoppedWorkerEnds ==
    \A t \in 1..MaxTasks :
        (t \in DOMAIN workers /\ Stopped(t))
            ~> (t \in DOMAIN workers /\ workers[t].pc = "done")

\* C28: stop_processing(c) reaches the worker of c (the only task of c that
\* is neither done nor cancelled is the one it cancels, on the queue it
\* drops), that worker comes to its end, a worker that has ended hands
\* nothing more to the handler, and the messages in the stopped queue stay
\* in it for good: no worker takes them, a later worker of c has a new queue.
C28_StopEndsWorkerAndDiscards ==
    /\ []StopReachesWorker
    /\ StoppedWorkerEnds
    /\ EndedStaysEnded
    /\ StoppedQueueKeepsItems

\* channel c was stopped with a message in its queue and a worker on it; the
\* worker has ended, the message is still in the dropped queue, and a second
\* worker of c has handed a later message from a new queue to the handler
C28_Witness ==
    \E c \in Channels :
        /\ Len(workers) = 2 /\ Len(qitems) = 2
        /\ c \in DOMAIN queues
        /\ workers[1].channel = c /\ workers[2].channel = c
        /\ workers[1].pc = "done" /\ workers[1].q = 1
        /\ evset[1] /\ qitems[1] # <<>>
        /\ workers[2].q = 2 /\ queues[c] = 2
        /\ handled[c] # <<>>
        /\ \A m \in Items(qitems[1]) :
               m \notin Items(handled[c]) /\ m < handled[c][Len(handled[c])]

\* the place of message m in the sequence s, 0 when it is not there
Pos(s, m) == IF \E i \in 1..Len(s) : s[i] = m
             THEN CHOOSE i \in 1..Len(s) : s[i] = m
             ELSE 0

\* C4: per channel, the messages reach the handler in the order in which
\* add_message inserted them, and the handler is running for at most one
\* message of the channel at a time.
C4_QueueFifo ==
    \A c \in Channels :
        /\ \A i \in 1..Len(handled[c]) : Pos(accepted[c], handled[c][i]) > 0
        /\ \A i, j \in 1..Len(handled[c]) :
               i < j => Pos(accepted[c], handled[c][i]) < Pos(accepted[c], handled[c][j])
        /\ Cardinality({t \in WorkersOf(c) : Live(t) /\ workers[t].pc = "handling"}) <= 1

\* three messages of one channel went through the handler
C4_Witness == \E c \in Channels : Len(handled[c]) = 3

\* C5: an add_message that gave up on a full queue returned within
\* QUEUE_TIMEOUT, left the message out of the queue for good, and returned
\* something else than a successful add_message returns.
C5_DropIsSignalled ==
    \A r \in addlog :
        r.outcome = "dropped" =>
            /\ r.waited <= QUEUE_TIMEOUT
            /\ Pos(accepted[r.channel], r.msg) = 0
            /\ r.ret # AddMessageReturn("queued")

(***************************************************************************)
(* Claims about the duplicate check, checked under SpecDedup.              *)
(***************************************************************************)
SameMessage(i, j) == deliveries[i].message = deliveries[j].message

\* C2 as stated: of two deliveries of one (chat id, message id) less than
\* cache_ttl seconds apart, at most one passes the duplicate check.
C2_WithinWindowOnce ==
    \A i, j \in 1..Len(deliveries) :
        (i < j /\ SameMessage(i, j)
               /\ deliveries[j].t - deliveries[i].t < cache_ttl)
            => ~(~deliveries[i].dup /\ ~deliveries[j].dup)

\* C2 as amended: of the deliveries of one (chat id, message id) that fall into
\* one time bucket floor(t / cache_ttl), the first passes the duplicate check and
\* every other one is suppressed; a delivery that no delivery of its own bucket
\* precedes passes, however close in time the previous bucket's deliveries are.
C2_SameBucketOnce ==
    \A j \in 1..Len(deliveries) :
        deliveries[j].dup <=>
            \E i \in 1..(j - 1) :
                /\ SameMessage(i, j)
                /\ Bucket(deliveries[i].t) = Bucket(deliveries[j].t)

\* one message delivered twice in one bucket, the second delivery suppressed,
\* and delivered again in the next bucket less than cache_ttl later, and passed
C2_Witness ==
    \E i, j, k \in 1..Len(deliveries) :
        /\ i < j /\ j < k /\ SameMessage(i, j) /\ SameMessage(j, k)
        /\ Bucket(deliveries[i].t) = Bucket(deliveries[j].t)
        /\ deliveries[i].t < deliveries[j].t
        /\ ~deliveries[i].dup /\ deliveries[j].dup
        /\ Bucket(deliveries[k].t) # Bucket(deliveries[j].t)
        /\ deliveries[k].t - deliveries[j].t < cache_ttl
        /\ ~deliveries[k].dup

\* the key _is_duplicate made for the i-th call
KeyOf(i) == get_message_key(deliveries[i].message, deliveries[i].t)

\* C24: a call of _is_duplicate returns False when no earlier call had its key
\* (chat id, message id, time bucket) and True when one had, whatever keys were
\* checked between the two; and the key of the last call is in the cache when
\* the call has returned.
C24_FirstFalseThenTrue ==
    /\ \A j \in 1..Len(deliveries) :
           LET earlier == {i \in 1..(j - 1) : KeyOf(i) = KeyOf(j)}
           IN  /\ earlier = {} => ~deliveries[j].dup
               /\ earlier # {} => deliveries[j].dup
    /\ deliveries # <<>> => KeyOf(Len(deliveries)) \in DOMAIN message_cache

\* a key was checked, then another key, then the first again in its bucket:
\* the first two calls returned False, the third True
C24_Witness ==
    \E i, j, k \in 1..Len(deliveries) :
        /\ i < j /\ j < k
        /\ KeyOf(i) = KeyOf(k)
        /\ KeyOf(j) # KeyOf(i)
        /\ ~deliveries[i].dup /\ ~deliveries[j].dup /\ deliveries[k].dup

C7_HalfOpen ==
    lastCall.made =>
        /\ lastCall.trial = "inflight" => ~lastCall.invoked
        /\ (/\ lastCall.trial = "failed"
            /\ lastCall.t - lastCall.lastFail < reset_timeout) => ~lastCall.invoked

(***************************************************************************)
(* Claims about forwarding, under SpecForward.                             *)
(***************************************************************************)
\* C3: a forward_handler call that ended without a connection loss and without
\* a failed forward call, for a folder that is active and bound to the
\* handler's channel, has forwarded its message into that channel; so a message
\* of a chat that two active folders share is in the channels of both.
C3_ForwardedToEveryFolder ==
    \A r \in finished :
        (/\ r.outcome \in {"forwarded", "duplicate"}
         /\ r.user \in DOMAIN users
         /\ r.folder \in DOMAIN users[r.user].active_folders
         /\ users[r.user].active_folders[r.folder] = r.channel)
        => [message |-> r.event, channel |-> r.channel] \in forwards

\* C11: a forward_handler call whose forward_messages call was answered with
\* a FloodWaitError of N seconds returned no earlier than N seconds after that
\* answer, made that one forward_messages call only, left the message out of
\* the channel, and the handler is registered as before (while it sleeps and
\* after it returned), so the messages that follow are handled.
C11_FloodWaitSleepsAndDrops ==
    /\ \A r \in finished :
           r.outcome = "flood_wait" =>
               /\ r.calls = 1
               /\ r.ended - r.called >= r.seconds
               /\ [message |-> r.event, channel |-> r.channel] \notin forwards
               /\ \E c \in 1..Len(clients) : r.h \in clients[c].handlers
    /\ \A inv \in invocations :
           inv.pc = "sleeping" => \E c \in 1..Len(clients) : inv.h \in clients[c].handlers

\* a call slept out a FloodWaitError, and the same handler forwarded the
\* message that came after
C11_Witness ==
    \E r1 \in finished, r2 \in finished :
        /\ r1.outcome = "flood_wait"
        /\ r2.h = r1.h
        /\ r2.event # r1.event
        /\ r2.outcome = "forwarded"
        /\ r2.called >= r1.ended

\* the clients of a user that are connected
LiveClients(u) == {c \in 1..Len(clients) : clients[c].owner = u /\ clients[c].connected}

\* C18: every user session has at most one connected client at any time.
C18_OneLiveClient ==
    \A u \in DOMAIN users : Cardinality(LiveClients(u)) <= 1

\* C19: no two forward_messages calls are awaited on the same client at the
\* same time.
C19_SendsSerialized ==
    \A i \in invocations, j \in invocations :
        (i # j /\ i.pc = "sending" /\ j.pc = "sending") => i.client # j.client

\* C12: once stop_all has returned, every task that was not done when it was
\* called is done: none is running or waiting for its cancellation.
C12_StopAllAwaitsWorkers ==
    (lastStopAll.made /\ lastStopAll.returned) =>
        \A t \in lastStopAll.found : workers[t].pc = "done"

(***************************************************************************)
(* Claims about activation and restart, under SpecApp.                     *)
(***************************************************************************)
\* C8: when activate_folder found a persisted channel for the folder, listed
\* the dialogs, and the channel was not among them or the admin rights on it
\* were gone, then a create call was made, the persisted mapping no longer
\* names the old channel, and once the create call gave a channel the folder is
\* bound to it and the persisted mapping names it.
C8_StaleChannelRebound ==
    (/\ lastActivate.made
     /\ lastActivate.had # NoChannel
     /\ lastActivate.lookup = "ok"
     /\ ~(lastActivate.resolved /\ lastActivate.admin))
    => /\ lastActivate.creates >= 1
       /\ lastActivate.persisted # lastActivate.had
       /\ lastActivate.created # NoChannel =>
              /\ lastActivate.result
              /\ lastActivate.channel = lastActivate.created
              /\ lastActivate.persisted = lastActivate.created

\* the channel was among the dialogs but without admin rights, and the folder
\* was bound to a newly created channel
C8_Witness ==
    /\ lastActivate.made
    /\ lastActivate.had # NoChannel
    /\ lastActivate.lookup = "ok"
    /\ lastActivate.resolved
    /\ ~lastActivate.admin
    /\ lastActivate.created # NoChannel
    /\ lastActivate.persisted = lastActivate.created

\* C9: when activate_folder found a persisted channel for the folder, listed
\* the dialogs, and the channel was among them with admin rights, then the
\* folder is bound to that channel, the persisted mapping still names it and no
\* create call was made.
C9_ResolvableChannelReused ==
    (/\ lastActivate.made
     /\ lastActivate.had # NoChannel
     /\ lastActivate.lookup = "ok"
     /\ lastActivate.resolved
     /\ lastActivate.admin)
    => /\ lastActivate.result
       /\ lastActivate.channel = lastActivate.had
       /\ lastActivate.persisted = lastActivate.had
       /\ lastActivate.creates = 0
       /\ lastActivate.created = NoChannel

\* a folder was activated a second time and got its persisted channel again
C9_Witness ==
    /\ lastActivate.made
    /\ lastActivate.had # NoChannel
    /\ lastActivate.lookup = "ok"
    /\ lastActivate.resolved
    /\ lastActivate.admin
    /\ lastActivate.channel = lastActivate.had
    /\ lastActivate.creates = 0

\* C10: after a restart and before any activate_folder call of the new
\* process, a session whose client is connected, whose stored credential is
\* valid and for which a folder -> channel binding is persisted with the
\* channel among the dialogs and writable, is authorized, has the folder in
\* active_folders bound to that channel and has a handler registered for it.
C10_RestartRestoresBinding ==
    \A u \in Users, f \in Folders :
        (/\ restarts > 0
         /\ ~lastActivate.made
         /\ u \in DOMAIN users
         /\ users[u].client # NoClient
         /\ clients[users[u].client].connected
         /\ u \in DOMAIN store
         /\ store[u].session_string \in validCreds
         /\ f \in DOMAIN store[u].folder_channels
         /\ ChannelReusable(channels, u, store[u].folder_channels[f]))
        => /\ users[u].is_authorized
           /\ f \in DOMAIN users[u].active_folders
           /\ users[u].active_folders[f] = store[u].folder_channels[f]
           /\ f \in DOMAIN users[u].folder_handlers
           /\ users[u].folder_handlers[f] \in clients[users[u].client].handlers

C14_ReactivationReusesChannel ==
    /\ lastDeactivate.made =>
           LET fc == LoadSession(store, lastDeactivate.user).folder_channels
           IN  /\ lastDeactivate.folder \in DOMAIN fc
               /\ fc[lastDeactivate.folder] = lastDeactivate.channel
    /\ ( /\ lastActivate.made
         /\ lastActivate.prior # NoChannel
         /\ lastActivate.lookup = "ok"
         /\ lastActivate.prior \in lastActivate.alive )
       => /\ lastActivate.channel = lastActivate.prior
          /\ lastActivate.creates = 0

\* a folder was activated, deactivated and activated again, and is bound to the
\* channel of the first activation
C14_Witness ==
    /\ lastActivate.made
    /\ lastActivate.prior # NoChannel
    /\ lastActivate.channel = lastActivate.prior
    /\ lastActivate.creates = 0
    /\ lastActivate.folder \in DOMAIN users[lastActivate.user].active_folders

\* C15: one activate_folder call sends CreateChannelRequest at most twice.
C15_AtMostTwoCreateCalls ==
    lastActivate.made => lastActivate.creates <= 2

\* the users whose turn has come in the round
Visited == {watchdog.log[i].user : i \in 1..Len(watchdog.log)}

\* C16: a round of check_connections visits every session the dictionary held
\* when the round began, whatever the checks of the other sessions did; no
\* session is dropped while the round runs, and a round ends early only because
\* the dictionary got a new user, never because a check failed.
C16_RoundChecksEverySession ==
    /\ watchdog.pc = "scanning" => Visited \cup watchdog.left = watchdog.started
    /\ watchdog.outcome = "complete" => Visited = watchdog.started
    /\ watchdog.outcome = "aborted" => Cardinality(DOMAIN users) # watchdog.size

\* a round ran to its end in which the check of one session failed and the
\* session after it was checked and passed
C16_Witness ==
    /\ watchdog.outcome = "complete"
    /\ \E i \in 1..Len(watchdog.log), j \in 1..Len(watchdog.log) :
           /\ i < j
           /\ watchdog.log[i].result = "failed"
           /\ watchdog.log[j].result = "ok"

\* C17: the watchdog calls init_client for a session at most
\* max_reconnect_attempts times without the session passing a check.
C17_BoundedReconnects ==
    \A u \in WUsers : watchdog.attempts[u] <= max_reconnect_attempts

\* C21: while a folder is active after a successful activate_folder call, the
\* saved active_folders of the user hold the folder with the channel the
\* session holds for it.
C21_ActiveFolderPersisted ==
    ( /\ lastActivate.made
      /\ lastActivate.result
      /\ lastActivate.user \in DOMAIN users
      /\ lastActivate.folder \in DOMAIN users[lastActivate.user].active_folders )
    => LET saved == LoadSession(store, lastActivate.user).active_folders
           f == lastActivate.folder
       IN  /\ f \in DOMAIN saved
           /\ saved[f] = users[lastActivate.user].active_folders[f]

\* C22: while a folder is active after a successful activate_folder call, the
\* MessageQueue has a task for the folder's channel.
C22_ActivationStartsWorker ==
    ( /\ lastActivate.made
      /\ lastActivate.result
      /\ lastActivate.user \in DOMAIN users
      /\ lastActivate.folder \in DOMAIN users[lastActivate.user].active_folders )
    => lastActivate.channel \in DOMAIN tasks

\* C23: ensure_connected on a session whose client is missing or not connected
\* makes a client from the stored credential and connects it; when the
\* connection is made and the remote says the user is not authorized, the
\* session has is_authorized = False and the call returns False; when the
\* remote says the user is authorized the call returns True and is_authorized
\* is as before; when connect() fails the call returns False.
C23_ReconnectThenAuthorization ==
    (lastEnsure.made /\ lastEnsure.need) =>
        /\ lastEnsure.cred = lastEnsure.session_string
        /\ lastEnsure.connected <=> lastEnsure.connect = "ok"
        /\ (lastEnsure.connect = "ok" /\ lastEnsure.auth = "ok" /\ ~lastEnsure.valid)
               => (~lastEnsure.is /\ ~lastEnsure.ok)
        /\ (lastEnsure.connect = "ok" /\ lastEnsure.auth = "ok" /\ lastEnsure.valid)
               => (lastEnsure.ok /\ lastEnsure.is = lastEnsure.was)
        /\ (lastEnsure.connect = "fail" \/ lastEnsure.auth = "error") => ~lastEnsure.ok

\* an authorized session that had lost its connection was reconnected, found
\* its authorization withdrawn, and the call returned False
C23_Witness ==
    /\ lastEnsure.made
    /\ lastEnsure.need
    /\ lastEnsure.connect = "ok"
    /\ lastEnsure.was
    /\ ~lastEnsure.valid
    /\ ~lastEnsure.is
    /\ ~lastEnsure.ok

\* C26: a second ensure_connected call right after the first, answered the
\* same way, returns what the first returned and leaves the session and the
\* clients as the first left them; on a session whose client is connected and
\* authorized the call returns True and changes neither the session nor any
\* client (the handlers included).
C26_EnsureConnectedIdempotent ==
    lastEnsure.made =>
        /\ lastEnsure.again
        /\ (~lastEnsure.need /\ lastEnsure.auth = "ok" /\ lastEnsure.valid)
               => (lastEnsure.ok /\ lastEnsure.same)

\* the call was made on a connected, authorized session with a folder active
C26_Witness ==
    /\ lastEnsure.made
    /\ ~lastEnsure.need
    /\ lastEnsure.ok
    /\ lastEnsure.same
    /\ lastEnsure.user \in DOMAIN users
    /\ DOMAIN users[lastEnsure.user].folder_handlers # {}

\* the manager never holds more than MAX_BACKGROUND_TASKS records
TasksWithinCap == TaskCount(task_manager) <= MAX_BACKGROUND_TASKS

\* C27: an add_task call made when the manager holds MAX_BACKGROUND_TASKS
\* records admits the new task (its id is recorded when the call is over) and
\* leaves at most MAX_BACKGROUND_TASKS records.
C27_AdmittedAtCap ==
    (lastAdd.made /\ lastAdd.before >= MAX_BACKGROUND_TASKS)
        => (lastAdd.admitted /\ lastAdd.after <= MAX_BACKGROUND_TASKS)

\* C29: after save_session(u, d) with d made of what JSON has, load_session(u)
\* returns d, with an encryption key and without, and load_session returns
\* for every other user what it returned before the save.
C29_SaveLoadRoundTrip ==
    (lastStored.op = "save" /\ JsonRepresentable(lastStored.data))
        => /\ LoadFile(files, encryption_key, lastStored.user) = lastStored.data
           /\ \A v \in WUsers \ {lastStored.user} :
                  LoadFile(files, encryption_key, v) = lastStored.before[v]

C29_Witness ==
    /\ lastStored.op = "save"
    /\ JsonRepresentable(lastStored.data)
    /\ encryption_key = "key"
    /\ lastStored.data.v[PyStr("active_folders")].v # EmptyDict
    /\ PyStr("folder_channels") \in DOMAIN lastStored.data.v
    /\ \E v \in WUsers \ {lastStored.user} :
           /\ v \in DOMAIN files
           /\ LoadFile(files, encryption_key, v) # lastStored.data
           /\ LoadFile(files, encryption_key, v) # DefaultData

\* C30: after cleanup_session(u) load_session(u) has session_string None and
\* every other key it had before the call, with the value it had; no key is
\* added but session_string.
C30_CleanupKeepsFolderData ==
    lastStored.op = "cleanup"
        => LET is == LoadFile(files, encryption_key, lastStored.user).v
               was == lastStored.before[lastStored.user].v
               ss == PyStr("session_string")
           IN  /\ ss \in DOMAIN is
               /\ is[ss] = PyNone
               /\ (DOMAIN is) \ {ss} = (DOMAIN was) \ {ss}
               /\ \A k \in (DOMAIN was) \ {ss} : is[k] = was[k]

C30_Witness ==
    /\ lastStored.op = "cleanup"
    /\ LET was == lastStored.before[lastStored.user].v
       IN  /\ PyStr("session_string") \in DOMAIN was
           /\ was[PyStr("session_string")] # PyNone
           /\ was[PyStr("active_folders")].v # EmptyDict
           /\ PyStr("folder_channels") \in DOMAIN was
           /\ was[PyStr("folder_channels")].v # EmptyDict
    /\ LoadFile(files, encryption_key, lastStored.user).v[PyStr("folder_channels")].v
           # EmptyDict

\* C31: a session that is authorized has the credential of a sign-in that
\* succeeded, and that credential is the one in its file; a flow that ended
\* in a timeout or an error told the user so, left is_authorized false and
\* left the file as it was.
C31_AuthorizedOnlyBySignIn ==
    /\ \A u \in DOMAIN users :
           users[u].is_authorized
               => /\ users[u].session_string # NoCred
                  /\ LoadSession(store, u).session_string = users[u].session_string
                  /\ lastLogin.made
    /\ (lastLogin.made /\ lastLogin.outcome # "ok")
           => /\ lastLogin.told \in {"timeout", "error"}
              /\ ~lastLogin.is
              /\ lastLogin.after = lastLogin.before
    /\ (lastLogin.made /\ lastLogin.outcome = "ok")
           => /\ lastLogin.told = "authorized"
              /\ lastLogin.is
              /\ lastLogin.after.session_string # NoCred

\* a sign-in failed after an earlier one had succeeded and the process was
\* restarted: the session is not authorized, the file still has the
\* credential of the first sign-in
C31_Witness ==
    /\ lastLogin.made /\ lastLogin.outcome = "timeout"
    /\ lastLogin.user \in DOMAIN users
    /\ ~users[lastLogin.user].is_authorized
    /\ lastLogin.before.session_string # NoCred

\* C32: a sign-in that succeeded left the folder_channels of the user's file
\* as they were before it.
C32_LoginKeepsChannelHistory ==
    (lastLogin.made /\ lastLogin.outcome = "ok")
        => lastLogin.after.folder_channels = lastLogin.before.folder_channels

\* C40: when a round of check_connections is over, and a session was made
\* while the round awaited inside the check of an authorized session, every
\* session that was in self.users and authorized when the round began has
\* been checked in the round.
C40_NewSessionKeepsRound ==
    ( /\ watchdog.pc = "sleeping"
      /\ Cardinality(DOMAIN users) > watchdog.size
      /\ watchdog.log # <<>>
      /\ watchdog.log[Len(watchdog.log)].result # "skipped" )
        => \A u \in watchdog.started :
               users[u].is_authorized => u \in Visited

\* C39: an activate_folder call that returns False leaves active_folders and
\* folder_handlers of the session as they were; and every folder in
\* active_folders has a handler in folder_handlers.
C39_ActivationAllOrNothing ==
    /\ [][ (lastActivate' # lastActivate /\ lastActivate'.made
                /\ ~lastActivate'.result)
             => LET u == lastActivate'.user
                IN  /\ users'[u].active_folders = users[u].active_folders
                    /\ users'[u].folder_handlers = users[u].folder_handlers ]_vars
    /\ [](\A u \in DOMAIN users :
             \A f \in DOMAIN users[u].active_folders :
                 f \in DOMAIN users[u].folder_handlers)

\* C38: an activation that found a channel saved for the folder, the channel
\* still among the user's dialogs with admin rights, and whose dialog listing
\* raised, creates no channel and leaves the saved channel of the folder as
\* it was.
C38_LookupErrorCreatesNothing ==
    ( /\ lastActivate.made
      /\ lastActivate.had # NoChannel
      /\ lastActivate.resolved /\ lastActivate.admin
      /\ lastActivate.lookup = "error" )
        => ( /\ lastActivate.created = NoChannel
             /\ lastActivate.persisted = lastActivate.had )

\* C37: no forward_messages call is made by a handler whose folder was
\* deactivated before the call (deactivate_folder had removed the handler
\* and returned).
C37_NoForwardAfterDeactivate ==
    \A r \in issued : ~r.deactivated

\* C36: every task made by add_task that is not done and was not asked to
\* cancel is the task recorded in BackgroundTaskManager.tasks under its id.
C36_RunningTasksTracked ==
    \A k \in DOMAIN wrappers :
        (wrappers[k].state # "done" /\ ~wrappers[k].cancel)
            => ( /\ wrappers[k].task_id \in DOMAIN task_manager.tasks
                 /\ task_manager.tasks[wrappers[k].task_id] = k )

\* C35: a wrapped call made for the client of a user is returned None without
\* being attempted only when a wrapped call made for that user's client has
\* raised before.
C35_BreakerPerUser ==
    (lastCall.made /\ ~lastCall.invoked /\ lastFor \in WUsers)
        => lastFor \in failedFor

\* C34: in the session of src/bot.py reconnect_attempts is always between 0
\* and max_reconnect_attempts and no step decreases it; and an
\* ensure_connected call that finds the client absent or disconnected with the
\* counter at the maximum makes no connection attempt, leaves is_authorized
\* False and returns False.
C34_ReconnectCounterBounded ==
    /\ [](legacy.reconnect_attempts \in 0..max_reconnect_attempts)
    /\ [][legacy'.reconnect_attempts >= legacy.reconnect_attempts]_vars
    /\ []( ( /\ lastLegacy.made /\ lastLegacy.down
             /\ lastLegacy.before = max_reconnect_attempts )
               => ( /\ ~lastLegacy.attempted
                    /\ lastLegacy.after = lastLegacy.before
                    /\ ~lastLegacy.is
                    /\ lastLegacy.ret = FALSE ) )

C34_Witness ==
    /\ lastLegacy.made /\ lastLegacy.down /\ lastLegacy.was
    /\ lastLegacy.before = max_reconnect_attempts
    /\ legacy.reconnect_attempts = max_reconnect_attempts

\* C33: after an ensure_connected call that had to make a new client and
\* returned True, every active folder of the session for which a handler was
\* registered has exactly one forward_handler on the session's client.
C33_SubscriptionsSurviveRecovery ==
    ( /\ lastEnsure.made /\ lastEnsure.need /\ lastEnsure.ok
      /\ lastEnsure.user \in DOMAIN users
      /\ users[lastEnsure.user].client # NoClient )
        => LET us == users[lastEnsure.user]
           IN  \A f \in (DOMAIN us.active_folders) \cap (DOMAIN us.folder_handlers) :
                   Cardinality({h \in clients[us.client].handlers :
                                   subs[h].folder = f}) = 1

\* C20: the user is told that the folder was activated only when activate_folder
\* succeeded.
C20_ToldActivatedOnlyOnSuccess ==
    (lastActivate.made /\ lastActivate.usable /\ lastActivate.told = "activated")
        => lastActivate.result

====
